---- MODULE Spec2Model ----
(***************************************************************************)
(* A model of the WebIDL to TypeScript translator: the tokenizer           *)
(* (tokenizer.ts), the parser combinators (parser.ts), the grammar         *)
(* (webidl.ts), the back end (typescript.ts) and the drivers that run the  *)
(* pipeline.                                                               *)
(* Strings are sequences of one-character strings; positions are 0-based   *)
(* as in the source, so character p of s is s[p + 1].                      *)
(***************************************************************************)
EXTENDS Integers, Sequences, FiniteSets, TLC

VARIABLES
    input,      \* tokenize: the text being scanned
    position,   \* tokenize: the scan position (0-based)
    lastIndex,  \* tokenize: lastIndex of each sticky pattern
    yielded,    \* tokenize: the tokens yielded so far
    tpc,        \* tokenize: "running", "done" (eof yielded) or "thrown"
    parser,     \* combinator call: the parser being applied
    frame,      \* combinator call: the locals of the call, and its result
    runs,       \* combinator call: the runs of the parsers it was given
    driver,     \* driver: "app", "env" or "cmd" ("none" when no driver runs)
    dpc,        \* driver: "tokenize", "parsed", "lowered", "generated", "rejected" or "thrown"
    returned,   \* driver: what the calls of the grammar's rules have returned
    definitions, \* driver: the result of Definitions(), success reassigned
    handed,     \* driver: the arguments generation was called with
    statements, \* driver: the statements generation returned, as emission left them
    writer,     \* driver: the Writer the statements were emitted to
    calls       \* writer alone: the calls made on it, each with what it found

tokVars == <<input, position, lastIndex, yielded, tpc>>

combVars == <<parser, frame, runs>>

drvVars == <<driver, dpc, returned, definitions, handed, statements, writer, calls>>

vars == <<tokVars, combVars, drvVars>>

(***************************************************************************)
(* Bounds of the model.                                                    *)
(***************************************************************************)
MaxLen == 3

MaxToks == 3

MaxIter == 4

\* The most parts an IDL text is joined from.
MaxParts == 2

\* The most type constructors around a named type in a text of a type.
MaxNest == 2

\* The most calls made on a Writer.
MaxCalls == 4

(***************************************************************************)
(* Character classes of the lexical patterns.                              *)
(***************************************************************************)
Digits == {"0", "1", "2", "3", "4", "5", "6", "7", "8", "9"}

NonZeroDigits == Digits \ {"0"}

OctDigits == {"0", "1", "2", "3", "4", "5", "6", "7"}

HexDigits == Digits \cup {"A", "B", "C", "D", "E", "F", "a", "b", "c", "d", "e", "f"}

Letters ==
    {"A", "B", "C", "D", "E", "F", "G", "H", "I", "J", "K", "L", "M",
     "N", "O", "P", "Q", "R", "S", "T", "U", "V", "W", "X", "Y", "Z",
     "a", "b", "c", "d", "e", "f", "g", "h", "i", "j", "k", "l", "m",
     "n", "o", "p", "q", "r", "s", "t", "u", "v", "w", "x", "y", "z"}

IdentChars == Digits \cup Letters \cup {"_", "-"}

WhitespaceChars == {"\t", "\n", "\r", " "}

\* The characters "." does not match in a pattern without the s flag.
LineTerminators == {"\n", "\r"}

\* The reserved words, in the order of the source list.
KEYWORDS ==
    <<
       <<"-","I","n","f","i","n","i","t","y">>,
       <<".",".",".">>,
       <<"A","r","r","a","y","B","u","f","f","e","r">>,
       <<"B","y","t","e","S","t","r","i","n","g">>,
       <<"D","O","M","E","x","c","e","p","t","i","o","n">>,
       <<"D","O","M","S","t","r","i","n","g">>,
       <<"D","a","t","a","V","i","e","w">>,
       <<"E","r","r","o","r">>,
       <<"F","l","o","a","t","3","2","A","r","r","a","y">>,
       <<"F","l","o","a","t","6","4","A","r","r","a","y">>,
       <<"F","r","o","z","e","n","A","r","r","a","y">>,
       <<"I","n","f","i","n","i","t","y">>,
       <<"I","n","t","1","6","A","r","r","a","y">>,
       <<"I","n","t","3","2","A","r","r","a","y">>,
       <<"I","n","t","8","A","r","r","a","y">>,
       <<"N","a","N">>,
       <<"P","r","o","m","i","s","e">>,
       <<"R","e","g","E","x","p">>,
       <<"U","S","V","S","t","r","i","n","g">>,
       <<"U","i","n","t","1","6","A","r","r","a","y">>,
       <<"U","i","n","t","3","2","A","r","r","a","y">>,
       <<"U","i","n","t","8","A","r","r","a","y">>,
       <<"U","i","n","t","8","C","l","a","m","p","e","d","A","r","r","a","y">>,
       <<"a","n","y">>,
       <<"a","t","t","r","i","b","u","t","e">>,
       <<"b","o","o","l","e","a","n">>,
       <<"b","y","t","e">>,
       <<"c","a","l","l","b","a","c","k">>,
       <<"c","o","n","s","t">>,
       <<"d","e","l","e","t","e","r">>,
       <<"d","i","c","t","i","o","n","a","r","y">>,
       <<"d","o","u","b","l","e">>,
       <<"e","n","u","m">>,
       <<"f","a","l","s","e">>,
       <<"f","l","o","a","t">>,
       <<"g","e","t","t","e","r">>,
       <<"i","m","p","l","e","m","e","n","t","s">>,
       <<"i","n","h","e","r","i","t">>,
       <<"i","n","t","e","r","f","a","c","e">>,
       <<"i","t","e","r","a","b","l","e">>,
       <<"l","e","g","a","c","y","c","a","l","l","e","r">>,
       <<"l","o","n","g">>,
       <<"m","a","p","l","i","k","e">>,
       <<"n","u","l","l">>,
       <<"o","b","j","e","c","t">>,
       <<"o","c","t","e","t">>,
       <<"o","p","t","i","o","n","a","l">>,
       <<"o","r">>,
       <<"p","a","r","t","i","a","l">>,
       <<"r","e","a","d","o","n","l","y">>,
       <<"r","e","q","u","i","r","e","d">>,
       <<"s","e","q","u","e","n","c","e">>,
       <<"s","e","r","i","a","l","i","z","e","r">>,
       <<"s","e","t","l","i","k","e">>,
       <<"s","e","t","t","e","r">>,
       <<"s","h","o","r","t">>,
       <<"s","t","a","t","i","c">>,
       <<"s","t","r","i","n","g","i","f","i","e","r">>,
       <<"t","r","u","e">>,
       <<"t","y","p","e","d","e","f">>,
       <<"u","n","r","e","s","t","r","i","c","t","e","d">>,
       <<"u","n","s","i","g","n","e","d">>,
       <<"v","o","i","d">>
    >>

(***************************************************************************)
(* Helpers on strings.                                                     *)
(***************************************************************************)
\* Character at 0-based index p, or "" past the end of s.
At(s, p) == IF p >= 0 /\ p < Len(s) THEN s[p + 1] ELSE ""

\* s.substr(p, n)
Substr(s, p, n) == SubSeq(s, p + 1, p + n)

\* Length of the longest run of characters of class C starting at p (greedy X*).
RECURSIVE RunLen(_, _, _)
RunLen(s, p, C) == IF At(s, p) \in C THEN 1 + RunLen(s, p + 1, C) ELSE 0

\* Length of the longest run of characters outside class C starting at p.
RECURSIVE RunLenNot(_, _, _)
RunLenNot(s, p, C) ==
    IF p < Len(s) /\ At(s, p) \notin C THEN 1 + RunLenNot(s, p + 1, C) ELSE 0

\* Whether word w occurs in s at p.
StartsWithAt(s, p, w) == p + Len(w) <= Len(s) /\ Substr(s, p, Len(w)) = w

\* The sequences over S of length at most n.
RECURSIVE SeqsUpTo(_, _)
SeqsUpTo(S, n) ==
    IF n = 0 THEN {<<>>}
    ELSE LET shorter == SeqsUpTo(S, n - 1)
         IN  shorter \cup {Append(s, c) : s \in {t \in shorter : Len(t) = n - 1}, c \in S}

\* The result of RegExp.exec: a match of some length, or null.
Match(n) == [matched |-> TRUE, len |-> n]

NoMatch == [matched |-> FALSE, len |-> 0]

(***************************************************************************)
(* The lexical patterns, each anchored at p (sticky flag).                 *)
(***************************************************************************)
\* /-?([1-9][0-9]*|0[Xx][0-9A-Fa-f]+|0[0-7]*)/y
integer_pattern(s, p) ==
    LET sign == IF At(s, p) = "-" THEN 1 ELSE 0
        q == p + sign
    IN  IF At(s, q) \in NonZeroDigits
          THEN Match(sign + 1 + RunLen(s, q + 1, Digits))
        ELSE IF At(s, q) = "0" /\ At(s, q + 1) \in {"X", "x"} /\ RunLen(s, q + 2, HexDigits) > 0
          THEN Match(sign + 2 + RunLen(s, q + 2, HexDigits))
        ELSE IF At(s, q) = "0"
          THEN Match(sign + 1 + RunLen(s, q + 1, OctDigits))
        ELSE NoMatch

\* ([Ee][+-]?[0-9]+) anchored at p: its length, or 0 when it does not match.
ExponentLen(s, p) ==
    LET sign == IF At(s, p + 1) \in {"+", "-"} THEN 1 ELSE 0
        d == RunLen(s, p + 1 + sign, Digits)
    IN  IF At(s, p) \in {"E", "e"} /\ d > 0 THEN 1 + sign + d ELSE 0

\* /-?(([0-9]+\.[0-9]*|[0-9]*\.[0-9]+)([Ee][+-]?[0-9]+)?|[0-9]+[Ee][+-]?[0-9]+)/y
float_pattern(s, p) ==
    LET sign == IF At(s, p) = "-" THEN 1 ELSE 0
        q == p + sign
        d == RunLen(s, q, Digits)
        frac == RunLen(s, q + d + 1, Digits)
        mant == d + 1 + frac
    IN  IF At(s, q + d) = "." /\ (d > 0 \/ frac > 0)
          THEN Match(sign + mant + ExponentLen(s, q + mant))
        ELSE IF d > 0 /\ ExponentLen(s, q + d) > 0
          THEN Match(sign + d + ExponentLen(s, q + d))
        ELSE NoMatch

\* /_?[A-Za-z][0-9A-Z_a-z-]*/y
identifier_pattern(s, p) ==
    LET q == IF At(s, p) = "_" THEN p + 1 ELSE p
    IN  IF At(s, q) \in Letters
          THEN Match((q - p) + 1 + RunLen(s, q + 1, IdentChars))
          ELSE NoMatch

\* /"[^"]*"/y
string_pattern(s, p) ==
    LET n == RunLenNot(s, p + 1, {"\""})
    IN  IF At(s, p) = "\"" /\ At(s, p + 1 + n) = "\"" THEN Match(n + 2) ELSE NoMatch

\* /[\t\n\r ]+/y
whitespace_pattern(s, p) ==
    LET n == RunLen(s, p, WhitespaceChars)
    IN  IF n > 0 THEN Match(n) ELSE NoMatch

\* (.|\n)*?\*\/ anchored at p, lazily: the length up to and including the
\* first "*/", or 0 when a character (.|\n) cannot match comes first.
RECURSIVE BlockCommentTail(_, _)
BlockCommentTail(s, p) ==
    IF p >= Len(s) THEN 0
    ELSE IF At(s, p) = "*" /\ At(s, p + 1) = "/" THEN 2
    ELSE IF At(s, p) = "\r" THEN 0
    ELSE LET n == BlockCommentTail(s, p + 1) IN IF n = 0 THEN 0 ELSE n + 1

\* /\/\/.*|\/\*(.|\n)*?\*\//y
comment_pattern(s, p) ==
    IF At(s, p) = "/" /\ At(s, p + 1) = "/"
      THEN Match(2 + RunLenNot(s, p + 2, LineTerminators))
    ELSE IF At(s, p) = "/" /\ At(s, p + 1) = "*" /\ BlockCommentTail(s, p + 2) > 0
      THEN Match(2 + BlockCommentTail(s, p + 2))
    ELSE NoMatch

\* /[^\t\n\r 0-9A-Za-z]/y
other_pattern(s, p) ==
    IF p < Len(s) /\ At(s, p) \notin (WhitespaceChars \cup Digits \cup Letters)
      THEN Match(1)
      ELSE NoMatch

\* The alternation (k1)|(k2)|... of the escaped keywords: the first keyword,
\* in list order, that occurs at p.
keyword_pattern(s, p) ==
    LET hits == {i \in 1..Len(KEYWORDS) : StartsWithAt(s, p, KEYWORDS[i])}
    IN  IF hits = {} THEN NoMatch
        ELSE Match(Len(KEYWORDS[CHOOSE i \in hits : \A j \in hits : i <= j]))

\* The order of the matches array ("Order is relevant").
PatternOrder ==
    <<"keyword", "integer", "float", "identifier", "string", "whitespace", "comment", "other">>

exec(kind, s, p) ==
    CASE kind = "keyword"    -> keyword_pattern(s, p)
      [] kind = "integer"    -> integer_pattern(s, p)
      [] kind = "float"      -> float_pattern(s, p)
      [] kind = "identifier" -> identifier_pattern(s, p)
      [] kind = "string"     -> string_pattern(s, p)
      [] kind = "whitespace" -> whitespace_pattern(s, p)
      [] kind = "comment"    -> comment_pattern(s, p)
      [] kind = "other"      -> other_pattern(s, p)

\* matches = [[kind, pattern.exec(input)], ...].filter(p => p[1] != null)
matches(s, li) ==
    LET all == [i \in 1..Len(PatternOrder) |->
                  [kind |-> PatternOrder[i], m |-> exec(PatternOrder[i], s, li[PatternOrder[i]])]]
    IN  SelectSeq(all, LAMBDA e : e.m.matched)

\* The reducer: the current match replaces the previous one only when longer.
LongerLast(p, c) == IF c.m.len >= p.m.len THEN c ELSE p

Longer(p, c) == IF c.m.len > p.m.len THEN c ELSE p

\* matches.reduce(..., null), for a non-empty matches array
RECURSIVE reduce(_, _, _)
reduce(ms, i, p) == IF i > Len(ms) THEN p ELSE reduce(ms, i + 1, Longer(p, ms[i]))

longest_match(ms) == reduce(ms, 2, ms[1])

\* The lastIndex of every pattern after the nine assignments that follow a token.
StaleKeywordIndex(li, pos) == [k \in DOMAIN li |-> IF k = "keyword" THEN li[k] ELSE pos]

ResetLastIndex(li, pos) == [k \in DOMAIN li |-> pos]

EofText == <<"<", "e", "o", "f", ">">>

\* The end-of-file token placed at the start of the text.
EofTokenAtStart(pos) == [kind |-> "eof", span |-> [text |-> EofText, position |-> 0]]

EofToken(pos) == [kind |-> "eof", span |-> [text |-> EofText, position |-> pos]]

(***************************************************************************)
(* Values of the parser engine.                                            *)
(***************************************************************************)
undefined == [undefined |-> TRUE]

null == [null |-> TRUE]

Bool(b) == [bool |-> b]

Token(kind, text, pos) == [kind |-> kind, span |-> [text |-> text, position |-> pos]]

\* IParserResult
Result(success, consumed, value, rest, errors) ==
    [success |-> success, consumed |-> consumed, value |-> value, rest |-> rest, errors |-> errors]

(***************************************************************************)
(* Parsers as data.  A parser built by a combinator is the record of the   *)
(* combinator's arguments; Run applies it to a token list.  A rule is a    *)
(* grammar function called when the parser that holds it is run.           *)
(***************************************************************************)
\* The optional text of token(kind, text?): given, or left out.
Text(chars) == <<chars>>

NoText == <<>>

\* The value of the parameter text: undefined when it was left out.
TextOf(p) == IF p.text = NoText THEN undefined ELSE p.text[1]

token(kind, text) == [op |-> "token", kind |-> kind, text |-> text]

fail == [op |-> "fail"]

constant(value) == [op |-> "constant", value |-> value]

many(p) == [op |-> "many", p |-> p]

optional(p, fallback) == [op |-> "optional", p |-> p, fallback |-> fallback]

\* create(f): the parsers the generator f yields, in order, and the name of
\* the expression it returns.
create(steps, ret) == [op |-> "create", steps |-> steps, ret |-> ret]

combine(p1, p2) == [op |-> "combine", p1 |-> p1, p2 |-> p2]

choose(parsers) == [op |-> "choose", parsers |-> parsers]

choose_backtracking(parsers) == [op |-> "choose_backtracking", parsers |-> parsers]

map(p, f) == [op |-> "map", p |-> p, f |-> f]

exists(p) == [op |-> "exists", p |-> p]

name(p, label) == [op |-> "name", p |-> p, label |-> label]

(***************************************************************************)
(* The texts the grammar compares token texts with, as the characters of  *)
(* each string literal of webidl.ts.                                       *)
(***************************************************************************)
W(w) ==
    CASE w = "(" -> <<"(">>
      [] w = ")" -> <<")">>
      [] w = "," -> <<",">>
      [] w = "-Infinity" -> <<"-", "I", "n", "f", "i", "n", "i", "t", "y">>
      [] w = "..." -> <<".", ".", ".">>
      [] w = ":" -> <<":">>
      [] w = ";" -> <<";">>
      [] w = "<" -> <<"<">>
      [] w = "=" -> <<"=">>
      [] w = ">" -> <<">">>
      [] w = "?" -> <<"?">>
      [] w = "ArrayBuffer" -> <<"A", "r", "r", "a", "y", "B", "u", "f", "f", "e", "r">>
      [] w = "ByteString" -> <<"B", "y", "t", "e", "S", "t", "r", "i", "n", "g">>
      [] w = "DOMException" -> <<"D", "O", "M", "E", "x", "c", "e", "p", "t", "i", "o", "n">>
      [] w = "DOMString" -> <<"D", "O", "M", "S", "t", "r", "i", "n", "g">>
      [] w = "DataView" -> <<"D", "a", "t", "a", "V", "i", "e", "w">>
      [] w = "Error" -> <<"E", "r", "r", "o", "r">>
      [] w = "Float32Array" -> <<"F", "l", "o", "a", "t", "3", "2", "A", "r", "r", "a", "y">>
      [] w = "Float64Array" -> <<"F", "l", "o", "a", "t", "6", "4", "A", "r", "r", "a", "y">>
      [] w = "FrozenArray" -> <<"F", "r", "o", "z", "e", "n", "A", "r", "r", "a", "y">>
      [] w = "Infinity" -> <<"I", "n", "f", "i", "n", "i", "t", "y">>
      [] w = "Int16Array" -> <<"I", "n", "t", "1", "6", "A", "r", "r", "a", "y">>
      [] w = "Int32Array" -> <<"I", "n", "t", "3", "2", "A", "r", "r", "a", "y">>
      [] w = "Int8Array" -> <<"I", "n", "t", "8", "A", "r", "r", "a", "y">>
      [] w = "NaN" -> <<"N", "a", "N">>
      [] w = "Promise" -> <<"P", "r", "o", "m", "i", "s", "e">>
      [] w = "RegExp" -> <<"R", "e", "g", "E", "x", "p">>
      [] w = "USVString" -> <<"U", "S", "V", "S", "t", "r", "i", "n", "g">>
      [] w = "Uint16Array" -> <<"U", "i", "n", "t", "1", "6", "A", "r", "r", "a", "y">>
      [] w = "Uint32Array" -> <<"U", "i", "n", "t", "3", "2", "A", "r", "r", "a", "y">>
      [] w = "Uint8Array" -> <<"U", "i", "n", "t", "8", "A", "r", "r", "a", "y">>
      [] w = "Uint8ClampedArray" -> <<"U", "i", "n", "t", "8", "C", "l", "a", "m", "p", "e", "d", "A", "r", "r", "a", "y">>
      [] w = "[" -> <<"[">>
      [] w = "]" -> <<"]">>
      [] w = "any" -> <<"a", "n", "y">>
      [] w = "attribute" -> <<"a", "t", "t", "r", "i", "b", "u", "t", "e">>
      [] w = "boolean" -> <<"b", "o", "o", "l", "e", "a", "n">>
      [] w = "byte" -> <<"b", "y", "t", "e">>
      [] w = "callback" -> <<"c", "a", "l", "l", "b", "a", "c", "k">>
      [] w = "const" -> <<"c", "o", "n", "s", "t">>
      [] w = "deleter" -> <<"d", "e", "l", "e", "t", "e", "r">>
      [] w = "dictioanry" -> <<"d", "i", "c", "t", "i", "o", "a", "n", "r", "y">>
      [] w = "dictionary" -> <<"d", "i", "c", "t", "i", "o", "n", "a", "r", "y">>
      [] w = "double" -> <<"d", "o", "u", "b", "l", "e">>
      [] w = "enum" -> <<"e", "n", "u", "m">>
      [] w = "false" -> <<"f", "a", "l", "s", "e">>
      [] w = "float" -> <<"f", "l", "o", "a", "t">>
      [] w = "getter" -> <<"g", "e", "t", "t", "e", "r">>
      [] w = "implements" -> <<"i", "m", "p", "l", "e", "m", "e", "n", "t", "s">>
      [] w = "inherit" -> <<"i", "n", "h", "e", "r", "i", "t">>
      [] w = "interface" -> <<"i", "n", "t", "e", "r", "f", "a", "c", "e">>
      [] w = "iterable" -> <<"i", "t", "e", "r", "a", "b", "l", "e">>
      [] w = "legacycaller" -> <<"l", "e", "g", "a", "c", "y", "c", "a", "l", "l", "e", "r">>
      [] w = "long" -> <<"l", "o", "n", "g">>
      [] w = "maplike" -> <<"m", "a", "p", "l", "i", "k", "e">>
      [] w = "null" -> <<"n", "u", "l", "l">>
      [] w = "object" -> <<"o", "b", "j", "e", "c", "t">>
      [] w = "octet" -> <<"o", "c", "t", "e", "t">>
      [] w = "optional" -> <<"o", "p", "t", "i", "o", "n", "a", "l">>
      [] w = "or" -> <<"o", "r">>
      [] w = "partial" -> <<"p", "a", "r", "t", "i", "a", "l">>
      [] w = "readonly" -> <<"r", "e", "a", "d", "o", "n", "l", "y">>
      [] w = "required" -> <<"r", "e", "q", "u", "i", "r", "e", "d">>
      [] w = "sequence" -> <<"s", "e", "q", "u", "e", "n", "c", "e">>
      [] w = "serializer" -> <<"s", "e", "r", "i", "a", "l", "i", "z", "e", "r">>
      [] w = "setlike" -> <<"s", "e", "t", "l", "i", "k", "e">>
      [] w = "setter" -> <<"s", "e", "t", "t", "e", "r">>
      [] w = "short" -> <<"s", "h", "o", "r", "t">>
      [] w = "static" -> <<"s", "t", "a", "t", "i", "c">>
      [] w = "stringifier" -> <<"s", "t", "r", "i", "n", "g", "i", "f", "i", "e", "r">>
      [] w = "true" -> <<"t", "r", "u", "e">>
      [] w = "typedef" -> <<"t", "y", "p", "e", "d", "e", "f">>
      [] w = "unrestricted" -> <<"u", "n", "r", "e", "s", "t", "r", "i", "c", "t", "e", "d">>
      [] w = "unsigned" -> <<"u", "n", "s", "i", "g", "n", "e", "d">>
      [] w = "void" -> <<"v", "o", "i", "d">>
      [] w = "{" -> <<"{">>
      [] w = "}" -> <<"}">>


(***************************************************************************)
(* The grammar of webidl.ts.  Each grammar function is a field, under its  *)
(* name, of the record of its part of the file; a call of a grammar        *)
(* function is rule(name), which Run resolves with Rule.                   *)
(***************************************************************************)
rule(r) == [op |-> "rule", name |-> r]

other(value) == token("other", Text(value))

\* keyword(value) succeeding on whatever token comes, consuming none.
keyword_unread(value) == constant(value)

keyword(value) == token("keyword", Text(value))

identifier == token("identifier", NoText)

\* The identity function and the NullableType wrapper that Null() yields.
id == [fn |-> "id"]

nullable == [fn |-> "NullableType"]

apply(p1, p2) == map(combine(p1, p2), "apply")

instance(p, type) == map(p, type)

\* The choice between the keywords of a list.
keywords(words) == choose([i \in 1..Len(words) |-> keyword(words[i])])

\* Definitions ... ImplementsStatement
DefinitionRules ==
    [
      Definitions |->
        optional(create(<<rule("ExtendedAttributeList"), rule("Definition"), rule("Definitions")>>,
                      "attributed"),
               <<>>),
      Definition |->
        choose(<<rule("CallbackOrInterface"), rule("Partial"), rule("Dictionary"), rule("Enum"), rule("Typedef"), rule("ImplementsStatement")>>),
      CallbackOrInterface |->
        choose(<<rule("Interface")>>),
      Interface |->
        create(<<keyword(W("interface")), identifier, rule("Inheritance"), other(W("{")),
               rule("InterfaceMembers"), other(W("}")), other(W(";"))>>, "Interface"),
      Partial |->
        fail,
      InterfaceMembers |->
        optional(create(<<rule("ExtendedAttributeList"), rule("InterfaceMember"),
                        rule("InterfaceMembers")>>, "attributed"),
               <<>>),
      InterfaceMember |->
        choose(<<rule("Const"), rule("Operation"), rule("Serializer"), rule("Stringifier"), rule("StaticMember"), rule("Iterable"),
               rule("ReadonlyMember"), rule("ReadWriteAttribute"), rule("ReadWriteMaplike"), rule("ReadWriteSetlike")>>),
      Dictionary |->
        create(<<keyword(W("dictionary")), identifier, rule("Inheritance"), other(W("{")),
               rule("DictionaryMembers"), other(W("}")), other(W(";"))>>, "Dictionary"),
      DictionaryMembers |->
        optional(create(<<rule("ExtendedAttributeList"), rule("DictionaryMember"),
                        rule("DictionaryMembers")>>, "attributed"),
               <<>>),
      DictionaryMember |->
        create(<<rule("Required"), rule("Type"), identifier, rule("Default"), other(W(";"))>>,
             "DictionaryMember"),
      Required |->
        exists(keyword(W("required"))),
      Default |->
        optional(create(<<other(W("=")), rule("DefaultValue")>>, "last"), null),
      DefaultValue |->
        choose(<<rule("ConstValue"),
               instance(token("string", NoText), "SimpleValue"),
               create(<<other(W("[")), other(W("]"))>>, "DefaultValue_brackets")>>),
      Inheritance |->
        optional(create(<<other(W(":")), identifier>>, "last"), null),
      Enum |->
        create(<<keyword(W("enum")), identifier, other(W("{")), rule("EnumValueList"),
               other(W("}")), other(W(";"))>>, "Enum"),
      EnumValueList |->
        create(<<token("string", NoText), rule("EnumValueListComma")>>, "cons"),
      EnumValueListComma |->
        optional(create(<<other(W(",")), rule("EnumValueListString")>>, "last"), <<>>),
      EnumValueListString |->
        optional(create(<<token("string", NoText), rule("EnumValueListComma")>>, "cons"), <<>>),
      Typedef |->
        create(<<keyword(W("typedef")), rule("Type"), identifier, other(W(";"))>>, "Typedef"),
      ImplementsStatement |->
        create(<<identifier, keyword(W("implements")), identifier, other(W(";"))>>,
             "ImplementsStatement")
    ]

\* Const ... SetlikeRest
MemberRules ==
    [
      Const |->
        create(<<keyword(W("const")), rule("ConstType"), identifier, other(W("=")),
               rule("ConstValue"), other(W(";"))>>, "Const"),
      ConstValue |->
        choose(<<rule("BooleanLiteral"),
               rule("FloatLiteral"),
               instance(token("integer", NoText), "SimpleValue"),
               instance(keyword(W("null")), "SimpleValue")>>),
      BooleanLiteral |->
        instance(choose(<<keyword(W("true")), keyword(W("false"))>>), "SimpleValue"),
      FloatLiteral |->
        instance(choose(<<token("float", NoText), keyword(W("-Infinity")),
                        keyword(W("Infinity")), keyword(W("NaN"))>>), "SimpleValue"),
      Serializer |->
        fail,
      Stringifier |->
        fail,
      StaticMember |->
        create(<<keyword(W("static")), rule("StaticMemberRest")>>, "StaticMember"),
      StaticMemberRest |->
        choose(<<create(<<rule("ReadOnly"), rule("AttributeRest")>>, "StaticMemberRest_attribute"),
               create(<<rule("ReturnType"), rule("OperationRest")>>, "StaticMemberRest_operation")>>),
      ReadonlyMember |->
        create(<<keyword(W("readonly")), rule("ReadonlyMemberRest")>>, "ReadonlyMember"),
      ReadonlyMemberRest |->
        choose(<<rule("AttributeRest"), rule("ReadWriteMaplike"), rule("ReadWriteSetlike")>>),
      ReadWriteAttribute |->
        choose(<<create(<<keyword(W("inherit")), rule("ReadOnly"), rule("AttributeRest")>>,
                      "ReadWriteAttribute_inherit"),
               rule("AttributeRest")>>),
      AttributeRest |->
        create(<<keyword(W("attribute")), rule("Type"), rule("AttributeName"), other(W(";"))>>,
             "AttributeRest"),
      AttributeName |->
        choose(<<rule("AttributeNameKeyword"), identifier>>),
      AttributeNameKeyword |->
        keyword(W("required")),
      Inherit |->
        exists(keyword(W("inherit"))),
      ReadOnly |->
        exists(keyword(W("readonly"))),
      Operation |->
        choose(<<create(<<rule("ReturnType"), rule("OperationRest")>>, "Operation"),
               rule("SpecialOperation")>>),
      SpecialOperation |->
        create(<<rule("Special"), rule("Specials"), rule("ReturnType"), rule("OperationRest")>>,
             "SpecialOperation"),
      Specials |->
        many(rule("Special")),
      Special |->
        choose(<<keyword(W("getter")), keyword(W("setter")), keyword(W("deleter")),
               keyword(W("legacycaller"))>>),
      OperationRest |->
        create(<<rule("OptionalIdentifier"), other(W("(")), rule("ArgumentList"), other(W(")")),
               other(W(";"))>>, "OperationRest"),
      OptionalIdentifier |->
        optional(identifier, null),
      ArgumentList |->
        optional(create(<<rule("Argument"), rule("Arguments")>>, "cons"), <<>>),
      Arguments |->
        optional(create(<<other(W(",")), rule("Argument"), rule("Arguments")>>, "tail"), <<>>),
      Argument |->
        create(<<rule("ExtendedAttributeList"), rule("OptionalOrRequiredArgument")>>, "Argument"),
      OptionalOrRequiredArgument |->
        choose(<<create(<<keyword(W("optional")), rule("Type"), rule("ArgumentName"),
                        rule("Default")>>, "Argument_optional"),
               create(<<rule("Type"), rule("Ellipsis"), rule("ArgumentName")>>,
                      "Argument_required")>>),
      ArgumentName |->
        choose(<<rule("ArgumentNameKeyword"), identifier>>),
      Ellipsis |->
        exists(keyword(W("..."))),
      Iterable |->
        create(<<keyword(W("iterable")), other(W("<")), rule("Type"), rule("OptionalType"),
               other(W(">")), other(W(";"))>>, "Iterable"),
      OptionalType |->
        optional(create(<<other(W(",")), rule("Type")>>, "last"), null),
      ReadWriteMaplike |->
        rule("MaplikeRest"),
      ReadWriteSetlike |->
        rule("SetlikeRest"),
      MaplikeRest |->
        create(<<keyword(W("maplike")), other(W("<")), rule("Type"), other(W(",")), rule("Type"),
               other(W(">")), other(W(";"))>>, "MaplikeRest"),
      SetlikeRest |->
        create(<<keyword(W("setlike")), other(W("<")), rule("Type"), other(W(">")),
               other(W(";"))>>, "SetlikeRest")
    ]

\* ExtendedAttributeList ... ArgumentNameKeyword
ExtendedAttributeRules ==
    [
      ExtendedAttributeList |->
        optional(create(<<other(W("[")), rule("ExtendedAttribute"), rule("ExtendedAttributes"),
                        other(W("]"))>>, "tail"),
               <<>>),
      ExtendedAttributes |->
        optional(create(<<other(W(",")), rule("ExtendedAttribute"), rule("ExtendedAttributes")>>,
                      "tail"),
               <<>>),
      ExtendedAttribute |->
        choose_backtracking(<<rule("ExtendedAttributeNamedArgList"), rule("ExtendedAttributeIdentList"),
                            rule("ExtendedAttributeIdent"), rule("ExtendedAttributeArgList"),
                            rule("ExtendedAttributeNoArgs")>>),
      ArgumentNameKeyword |->
        keywords(<<W("attribute"), W("callback"), W("const"), W("deleter"),
                 W("dictioanry"), W("enum"), W("getter"), W("implements"),
                 W("inherit"), W("interface"), W("iterable"), W("legacycaller"),
                 W("maplike"), W("partial"), W("required"), W("serializer"),
                 W("setlike"), W("setter"), W("static"), W("stringifier"),
                 W("typedef"), W("unrestricted")>>)
    ]

\* Type ... ReturnType
TypeRules ==
    [
      Type |->
        choose(<<rule("SingleType"), apply(rule("UnionType"), rule("Null"))>>),
      SingleType |->
        choose(<<rule("NonAnyType"), instance(keyword(W("any")), "SimpleType")>>),
      UnionType |->
        create(<<other(W("(")), rule("UnionMemberType"), keyword(W("or")),
               rule("UnionMemberType"), rule("UnionMemberTypes"), other(W(")"))>>,
             "UnionType"),
      UnionMemberType |->
        choose(<<rule("NonAnyType"), apply(rule("UnionType"), rule("Null"))>>),
      UnionMemberTypes |->
        optional(create(<<keyword(W("or")), rule("UnionMemberType"), rule("UnionMemberTypes")>>,
                      "tail"),
               <<>>),
      NonAnyType |->
        LET sequence ==
            create(<<keyword(W("sequence")), other(W("<")), rule("Type"), other(W(">"))>>,
                   "SequenceType")
          frozen ==
            create(<<keyword(W("FrozenArray")), other(W("<")), rule("Type"), other(W(">"))>>,
                   "FrozenArrayType")
      IN  choose(<<apply(rule("PrimitiveType"), rule("Null")),
                   apply(rule("PromiseType"), rule("Null")),
                   apply(instance(keyword(W("ByteString")), "SimpleType"), rule("Null")),
                   apply(instance(keyword(W("DOMString")), "SimpleType"), rule("Null")),
                   apply(instance(keyword(W("USVString")), "SimpleType"), rule("Null")),
                   apply(instance(identifier, "SimpleType"), rule("Null")),
                   apply(sequence, rule("Null")),
                   apply(instance(keyword(W("object")), "SimpleType"), rule("Null")),
                   apply(instance(keyword(W("RegExp")), "SimpleType"), rule("Null")),
                   apply(instance(keyword(W("Error")), "SimpleType"), rule("Null")),
                   apply(instance(keyword(W("DOMException")), "SimpleType"), rule("Null")),
                   apply(rule("BufferRelatedType"), rule("Null")),
                   apply(frozen, rule("Null"))>>),
      BufferRelatedType |->
        instance(keywords(<<W("ArrayBuffer"), W("DataView"), W("Int8Array"),
                          W("Int16Array"), W("Int32Array"), W("Uint8Array"),
                          W("Uint16Array"), W("Uint32Array"), W("Uint8ClampedArray"),
                          W("Float32Array"), W("Float64Array")>>), "SimpleType"),
      ConstType |->
        apply(choose(<<rule("PrimitiveType"), instance(identifier, "SimpleType")>>), rule("Null")),
      PrimitiveType |->
        choose(<<rule("UnsignedIntegerType"),
               rule("UnrestrictedFloatType"),
               instance(keyword(W("boolean")), "SimpleType"),
               instance(keyword(W("byte")), "SimpleType"),
               instance(keyword(W("octet")), "SimpleType")>>),
      UnrestrictedFloatType |->
        choose(<<create(<<keyword(W("unrestricted")), rule("FloatType")>>, "UnrestrictedFloatType"),
               rule("FloatType")>>),
      FloatType |->
        create(<<choose(<<keyword(W("float")), keyword(W("double"))>>)>>, "FloatType"),
      UnsignedIntegerType |->
        choose(<<create(<<keyword(W("unsigned")), rule("IntegerType")>>, "UnsignedIntegerType"),
               rule("IntegerType")>>),
      IntegerType |->
        choose(<<create(<<keyword(W("short"))>>, "IntegerType_short"),
               create(<<keyword(W("long")), rule("OptionalLong")>>, "IntegerType_long")>>),
      OptionalLong |->
        exists(keyword(W("long"))),
      PromiseType |->
        create(<<keyword(W("Promise")), other(W("<")), rule("Type"), other(W(">"))>>, "PromiseType"),
      Null |->
        optional(map(other(W("?")), "nullable"), id),
      ReturnType |->
        choose(<<rule("Type"), map(keyword(W("void")), "void")>>)
    ]

\* IdentifierList ... ExtendedAttributeNamedArgList
ExtendedAttributeKindRules ==
    [
      IdentifierList |->
        create(<<identifier, rule("Identifiers")>>, "cons"),
      Identifiers |->
        optional(create(<<other(W(",")), identifier, rule("Identifiers")>>, "tail"), <<>>),
      ExtendedAttributeNoArgs |->
        instance(identifier, "ExtendedAttribute"),
      ExtendedAttributeArgList |->
        create(<<identifier, other(W("(")), rule("ArgumentList"), other(W(")"))>>,
             "ExtendedAttributeArgList"),
      ExtendedAttributeIdent |->
        create(<<identifier, other(W("=")), identifier>>, "ExtendedAttributeIdent"),
      ExtendedAttributeIdentList |->
        create(<<identifier, other(W("=")), other(W("(")), rule("IdentifierList"),
               other(W(")"))>>, "ExtendedAttributeIdentList"),
      ExtendedAttributeNamedArgList |->
        create(<<identifier, other(W("=")), identifier, other(W("(")), rule("ArgumentList"),
               other(W(")"))>>, "ExtendedAttributeNamedArgList")
    ]

\* The parser a grammar function returns when it is called.
Rule(r) ==
    CASE r \in DOMAIN DefinitionRules -> DefinitionRules[r]
      [] r \in DOMAIN MemberRules -> MemberRules[r]
      [] r \in DOMAIN ExtendedAttributeRules -> ExtendedAttributeRules[r]
      [] r \in DOMAIN TypeRules -> TypeRules[r]
      [] r \in DOMAIN ExtendedAttributeKindRules -> ExtendedAttributeKindRules[r]

\* obj.field = value on a JavaScript object.
Assign(obj, field, value) ==
    [x \in DOMAIN obj \cup {field} |-> IF x = field THEN value ELSE obj[x]]

\* a === b between values of any shape: an array, an object, null, undefined
\* or a boolean.
Same(a, b) == ToString(a) = ToString(b)

\* if (value) on an array, an object, null, undefined or a boolean.
Truthy(value) == ~Same(value, null) /\ ~Same(value, undefined) /\ ~Same(value, Bool(FALSE))

\* The return statement of each generator of the grammar; v holds the values
\* its yields received, in order.  A generator of no grammar function returns
\* an object made of them.
GrammarReturn(ret, v) ==
    CASE ret = "attributed" -> <<Assign(v[2], "attributes", v[1])>> \o v[3]
      [] ret = "cons" -> <<v[1]>> \o v[2]
      [] ret = "tail" -> <<v[2]>> \o v[3]
      [] ret = "Interface" ->
           [node |-> "InterfaceDefinition", identifier |-> v[2], inheritance |-> v[3],
            members |-> v[5]]
      [] ret = "Dictionary" ->
           [node |-> "DictionaryDefinition", identifier |-> v[2], inheritance |-> v[3],
            members |-> v[5]]
      [] ret = "DictionaryMember" ->
           [node |-> "DictionaryMember", required |-> v[1], type |-> v[2],
            identifier |-> v[3], def |-> v[4]]
      [] ret = "DefaultValue_brackets" ->
           [node |-> "SimpleValue",
            span |-> [text |-> <<"[", "]">>, position |-> v[1].position]]
      [] ret = "Enum" -> [node |-> "EnumDefinition", identifier |-> v[2], values |-> v[4]]
      [] ret = "Typedef" -> [node |-> "Typedef", identifier |-> v[3], type |-> v[2]]
      [] ret = "ImplementsStatement" ->
           [node |-> "ImplementsStatement", identifier |-> v[1], name |-> v[3]]
      [] ret = "Const" ->
           [node |-> "ConstMember", identifier |-> v[3], type |-> v[2], value |-> v[5]]
      [] ret = "StaticMember" ->
           [node |-> "StaticMember", identifier |-> v[2].identifier, member |-> v[2]]
      [] ret = "StaticMemberRest_attribute" -> Assign(v[2], "readonly", v[1])
      [] ret = "StaticMemberRest_operation" -> Assign(v[2], "rtype", v[1])
      [] ret = "ReadonlyMember" -> Assign(v[2], "readonly", Bool(TRUE))
      [] ret = "ReadWriteAttribute_inherit" ->
           Assign(Assign(v[3], "inherit", Bool(TRUE)), "readonly", v[2])
      [] ret = "AttributeRest" ->
           [node |-> "AttributeMember", identifier |-> v[3], inherit |-> Bool(FALSE),
            readonly |-> Bool(FALSE), type |-> v[2]]
      [] ret = "Operation" -> Assign(Assign(v[2], "specials", <<>>), "rtype", v[1])
      [] ret = "SpecialOperation" ->
           Assign(Assign(v[4], "specials", <<v[1]>> \o v[2]), "rtype", v[3])
      [] ret = "OperationRest" ->
           [node |-> "OperationMember", identifier |-> v[1], specials |-> <<>>,
            rtype |-> null, args |-> v[3]]
      [] ret = "Argument" -> Assign(v[2], "attributes", v[1])
      [] ret = "Argument_optional" ->
           [node |-> "Argument", optional |-> Bool(TRUE), type |-> v[2],
            variadic |-> Bool(FALSE), identifier |-> v[3], def |-> v[4]]
      [] ret = "Argument_required" ->
           [node |-> "Argument", optional |-> Bool(FALSE), type |-> v[1],
            variadic |-> v[2], identifier |-> v[3], def |-> null]
      [] ret = "Iterable" ->
           IF Truthy(v[4])
             THEN [node |-> "IterableMember", identifier |-> null, key |-> v[3],
                   value |-> v[4]]
             ELSE [node |-> "IterableMember", identifier |-> null, key |-> null,
                   value |-> v[3]]
      [] ret = "MaplikeRest" ->
           [node |-> "MaplikeMember", identifier |-> null, readonly |-> Bool(FALSE),
            key |-> v[3], value |-> v[5]]
      [] ret = "SetlikeRest" ->
           [node |-> "SetlikeMember", identifier |-> null, readonly |-> Bool(FALSE),
            value |-> v[3]]
      [] ret = "UnionType" -> [node |-> "UnionType", types |-> <<v[2], v[4]>> \o v[5]]
      [] ret = "SequenceType" -> [node |-> "SequenceType", type |-> v[3]]
      [] ret = "FrozenArrayType" -> [node |-> "FrozenArrayType", type |-> v[3]]
      [] ret = "PromiseType" -> [node |-> "PromiseType", type |-> v[3]]
      [] ret = "UnrestrictedFloatType" -> Assign(v[2], "unrestricted", Bool(TRUE))
      [] ret = "FloatType" ->
           [node |-> "FloatType", unrestricted |-> Bool(FALSE), name |-> v[1]]
      [] ret = "UnsignedIntegerType" -> Assign(v[2], "unsigned", Bool(TRUE))
      [] ret = "IntegerType_short" ->
           [node |-> "IntegerType", unsigned |-> Bool(FALSE), name |-> v[1],
            long |-> Bool(FALSE)]
      [] ret = "IntegerType_long" ->
           [node |-> "IntegerType", unsigned |-> Bool(FALSE), name |-> v[1],
            long |-> v[2]]
      [] ret = "ExtendedAttributeArgList" ->
           [node |-> "ExtendedAttributeArgList", identifier |-> v[1], args |-> v[3]]
      [] ret = "ExtendedAttributeIdent" ->
           [node |-> "ExtendedAttributeArgList", identifier |-> v[1], args |-> v[3]]
      [] ret = "ExtendedAttributeIdentList" ->
           [node |-> "ExtendedAttributeIdentList", identifier |-> v[1], idents |-> v[4]]
      [] ret = "ExtendedAttributeNamedArgList" ->
           [node |-> "ExtendedAttributeNamedArgList", identifier |-> v[1],
            ident |-> v[3], args |-> v[5]]
      [] OTHER -> [node |-> ret, of |-> v]

\* apply wrapping the type whatever Null() yielded.
GrammarApply_wrapping(f, value) ==
    CASE f = "apply" -> [node |-> "NullableType", type |-> value[1]]
      [] f = "nullable" -> nullable
      [] f = "void" -> null
      [] f = "SimpleType" -> [node |-> "SimpleType", span |-> value]
      [] f = "SimpleValue" -> [node |-> "SimpleValue", span |-> value]
      [] f = "ExtendedAttribute" -> [node |-> "ExtendedAttribute", identifier |-> value]
      [] OTHER -> [node |-> f, of |-> <<value>>]

\* The functions the grammar hands to map.
GrammarApply(f, value) ==
    CASE f = "apply" ->
           IF value[2] = id THEN value[1]
                            ELSE [node |-> "NullableType", type |-> value[1]]
      [] f = "nullable" -> nullable
      [] f = "void" -> null
      [] f = "SimpleType" -> [node |-> "SimpleType", span |-> value]
      [] f = "SimpleValue" -> [node |-> "SimpleValue", span |-> value]
      [] f = "ExtendedAttribute" -> [node |-> "ExtendedAttribute", identifier |-> value]
      [] OTHER -> [node |-> f, of |-> <<value>>]

\* The value returned by a generator from the values its yields received.
Return(ret, values) ==
    CASE ret = "values" -> values
      [] ret = "last"   -> values[Len(values)]
      [] OTHER          -> GrammarReturn(ret, values)

\* The function f of map(p, f) applied to a value.
Apply(f, value) ==
    CASE f = "id" -> value
      [] OTHER    -> GrammarApply(f, value)

(***************************************************************************)
(* The leaf parsers.                                                       *)
(***************************************************************************)
\* token(kind, text) comparing the kind alone.
token_run_anytext(p, tokens) ==
    IF Len(tokens) > 0 /\ tokens[1].kind = p.kind
      THEN Result(TRUE, TRUE, tokens[1].span, Tail(tokens), <<>>)
      ELSE LET span == [text |-> TextOf(p), position |-> -1]
               expected == [kind |-> p.kind, span |-> span]
               got == IF Len(tokens) > 0 THEN tokens[1] ELSE undefined
               error == [expected |-> expected, got |-> got]
           IN  Result(FALSE, FALSE, undefined, tokens, <<error>>)

\* token(kind, text)(tokens)
token_run(p, tokens) ==
    IF Len(tokens) > 0 /\ tokens[1].kind = p.kind
         /\ (p.text = NoText \/ tokens[1].span.text = TextOf(p))
      THEN Result(TRUE, TRUE, tokens[1].span, Tail(tokens), <<>>)
      ELSE LET span == [text |-> TextOf(p), position |-> -1]
               expected == [kind |-> p.kind, span |-> span]
               got == IF Len(tokens) > 0 THEN tokens[1] ELSE undefined
               error == [expected |-> expected, got |-> got]
           IN  Result(FALSE, FALSE, undefined, tokens, <<error>>)

\* fail()(tokens)
fail_run(tokens) ==
    LET error == [expected |-> null, got |-> null]
    IN  Result(FALSE, FALSE, undefined, tokens, <<error>>)

\* constant(value)(tokens)
constant_run(p, tokens) == Result(TRUE, FALSE, p.value, tokens, <<>>)

(***************************************************************************)
(* The loops of many, create, choose and choose_backtracking.  A frame     *)
(* holds the locals of one call; an Iter operator is one pass of the loop  *)
(* given the result of the parser the pass runs.                           *)
(***************************************************************************)
many_frame(tokens) ==
    [tokens |-> tokens, rest |-> tokens, values |-> <<>>, consumed |-> FALSE,
     done |-> FALSE, result |-> undefined]

\* many with the failing pass always ending in success.
many_iter_lenient(f, result) ==
    LET consumed == f.consumed \/ result.consumed
    IN  IF result.success
          THEN [f EXCEPT !.values = Append(@, result.value), !.rest = result.rest,
                         !.consumed = consumed]
          ELSE [f EXCEPT !.consumed = consumed, !.done = TRUE,
                         !.result = Result(TRUE, consumed, f.values, f.rest, <<>>)]

\* many returning at its first success.
many_iter_once(f, result) ==
    LET consumed == f.consumed \/ result.consumed
    IN  IF result.success
          THEN [f EXCEPT !.values = Append(@, result.value), !.rest = result.rest,
                         !.consumed = consumed, !.done = TRUE,
                         !.result = Result(TRUE, consumed, Append(f.values, result.value),
                                           result.rest, <<>>)]
          ELSE [f EXCEPT !.consumed = consumed, !.done = TRUE,
                         !.result = Result(result.consumed = FALSE, consumed, f.values,
                                           f.rest, result.errors)]

many_iter(f, result) ==
    LET consumed == f.consumed \/ result.consumed
    IN  IF result.success
          THEN [f EXCEPT !.values = Append(@, result.value), !.rest = result.rest,
                         !.consumed = consumed]
        ELSE IF result.consumed
          THEN [f EXCEPT !.consumed = consumed, !.done = TRUE,
                         !.result = Result(FALSE, consumed, undefined, f.tokens, result.errors)]
        ELSE [f EXCEPT !.consumed = consumed, !.done = TRUE,
                       !.result = Result(TRUE, consumed, f.values, f.rest, <<>>)]

create_frame(tokens) ==
    [tokens |-> tokens, rest |-> tokens, values |-> <<>>, errors |-> <<>>,
     consumed |-> FALSE, i |-> 1, done |-> FALSE, result |-> undefined]

\* The pass of create that finds the generator done.
create_done(p, f) ==
    [f EXCEPT !.done = TRUE,
              !.result = Result(TRUE, f.consumed, Return(p.ret, f.values), f.rest, f.errors)]

\* create with a failure that keeps the rest reached so far.
create_iter_norewind(f, result) ==
    LET consumed == f.consumed \/ result.consumed
    IN  IF result.success
          THEN [f EXCEPT !.values = Append(@, result.value), !.rest = result.rest,
                         !.errors = result.errors, !.consumed = consumed, !.i = @ + 1]
          ELSE [f EXCEPT !.consumed = consumed, !.done = TRUE,
                         !.result = Result(FALSE, consumed, undefined, f.rest,
                                           f.errors \o result.errors)]

\* The pass of create that runs the yielded parser.
create_iter(f, result) ==
    LET consumed == f.consumed \/ result.consumed
    IN  IF result.success
          THEN [f EXCEPT !.values = Append(@, result.value), !.rest = result.rest,
                         !.errors = result.errors, !.consumed = consumed, !.i = @ + 1]
          ELSE [f EXCEPT !.consumed = consumed, !.done = TRUE,
                         !.result = Result(FALSE, consumed, undefined, f.tokens,
                                           f.errors \o result.errors)]

choose_frame(tokens) ==
    [tokens |-> tokens, errors |-> <<>>, i |-> 1, done |-> FALSE, result |-> undefined]

\* The return after the for loop of choose and choose_backtracking.
choose_none(f) ==
    [f EXCEPT !.done = TRUE,
              !.result = Result(FALSE, FALSE, undefined, f.tokens, f.errors)]

\* choose committing on success only.
choose_iter_nocommit(f, result) ==
    IF result.success
      THEN [f EXCEPT !.done = TRUE, !.result = result]
      ELSE [f EXCEPT !.errors = @ \o result.errors, !.i = @ + 1]

choose_iter(f, result) ==
    IF result.success \/ result.consumed
      THEN [f EXCEPT !.done = TRUE, !.result = result]
      ELSE [f EXCEPT !.errors = @ \o result.errors, !.i = @ + 1]

\* choose_backtracking committing on consumption too.
choose_backtracking_iter_commit(f, result) ==
    IF result.success \/ result.consumed
      THEN [f EXCEPT !.done = TRUE, !.result = result]
      ELSE [f EXCEPT !.errors = @ \o result.errors, !.i = @ + 1]

choose_backtracking_iter(f, result) ==
    IF result.success
      THEN [f EXCEPT !.done = TRUE, !.result = result]
      ELSE [f EXCEPT !.errors = @ \o result.errors, !.i = @ + 1]

(***************************************************************************)
(* The single-call combinators, given the results of the parsers they run. *)
(***************************************************************************)
\* optional turning every failure into the fallback.
optional_of_always(p, tokens, result) ==
    IF result.success
      THEN result
      ELSE Result(TRUE, FALSE, p.fallback, tokens, <<>>)

optional_of(p, tokens, result) ==
    IF result.success \/ result.consumed
      THEN result
      ELSE Result(TRUE, FALSE, p.fallback, tokens, <<>>)

\* combine when p1 failed
combine_first(tokens, r1) == Result(FALSE, r1.consumed, undefined, tokens, r1.errors)

\* combine leaving, when p2 fails, what p1 left.
combine_both_unrewound(tokens, r1, r2) ==
    LET errors == r1.errors \o r2.errors
        consumed == r1.consumed \/ r2.consumed
    IN  IF r2.success
          THEN Result(TRUE, consumed, <<r1.value, r2.value>>, r2.rest, errors)
          ELSE Result(FALSE, consumed, undefined, r2.rest, errors)

\* combine when p1 succeeded and p2 was run
combine_both(tokens, r1, r2) ==
    LET errors == r1.errors \o r2.errors
        consumed == r1.consumed \/ r2.consumed
    IN  IF r2.success
          THEN Result(TRUE, consumed, <<r1.value, r2.value>>, r2.rest, errors)
          ELSE Result(FALSE, consumed, undefined, tokens, errors)

map_of(p, tokens, result) ==
    IF result.success
      THEN Result(TRUE, result.consumed, Apply(p.f, result.value), result.rest, result.errors)
      ELSE Result(FALSE, result.consumed, undefined, tokens, result.errors)

exists_of(result) ==
    Result(TRUE, result.consumed, Bool(result.success), result.rest, result.errors)

name_of(p, result) ==
    IF Len(result.errors) > 0
      THEN LET span == [text |-> p.label, position |-> -1]
               expected == [kind |-> "eof", span |-> span]
               got == result.errors[1].got
               error == [expected |-> expected, got |-> got]
           IN  [result EXCEPT !.errors = <<error>>]
      ELSE result

(***************************************************************************)
(* Run(p, tokens): the result of the parser p on tokens.                   *)
(***************************************************************************)
\* The rules whose calls a driver's parse is followed through, call by call:
\* the rules of the lists, of the types and of the longest choices.  The rules
\* of the second group call rules of the first on the token they are called on.
Levels ==
    << {"ArgumentNameKeyword", "Arguments", "ConstType", "EnumValueListComma",
        "ExtendedAttributeList", "ExtendedAttributes", "Identifiers", "StaticMember",
        "Type", "UnionMemberType", "UnionMemberTypes"},
       {"Argument", "Definitions", "DictionaryMembers", "InterfaceMembers"} >>

Recursive == UNION {Levels[i] : i \in 1..Len(Levels)}

\* Whether the call of rule r on these tokens has returned.  A rule is a pure
\* function of its tokens, every token list of a parse is a suffix of the
\* filtered tokens, and the calls on the shorter suffixes return first.
HasReturned(r, tokens) ==
    Len(tokens) \in 1..Len(returned) /\ r \in DOMAIN returned[Len(tokens)]

RECURSIVE Run(_, _)
RECURSIVE many_loop(_, _)
RECURSIVE create_loop(_, _)
RECURSIVE choose_loop(_, _)
RECURSIVE choose_backtracking_loop(_, _)

many_loop(p, f) ==
    IF f.done THEN f.result ELSE many_loop(p, many_iter(f, Run(p.p, f.rest)))

create_loop(p, f) ==
    IF f.done THEN f.result
    ELSE IF f.i > Len(p.steps) THEN create_loop(p, create_done(p, f))
    ELSE create_loop(p, create_iter(f, Run(p.steps[f.i], f.rest)))

choose_loop(p, f) ==
    IF f.done THEN f.result
    ELSE IF f.i > Len(p.parsers) THEN choose_loop(p, choose_none(f))
    ELSE choose_loop(p, choose_iter(f, Run(p.parsers[f.i], f.tokens)))

choose_backtracking_loop(p, f) ==
    IF f.done THEN f.result
    ELSE IF f.i > Len(p.parsers) THEN choose_backtracking_loop(p, choose_none(f))
    ELSE choose_backtracking_loop(p, choose_backtracking_iter(f, Run(p.parsers[f.i], f.tokens)))

Run(p, tokens) ==
    CASE p.op = "token"    -> token_run(p, tokens)
      [] p.op = "fail"     -> fail_run(tokens)
      [] p.op = "constant" -> constant_run(p, tokens)
      [] p.op = "many"     -> many_loop(p, many_frame(tokens))
      [] p.op = "optional" -> optional_of(p, tokens, Run(p.p, tokens))
      [] p.op = "create"   -> create_loop(p, create_frame(tokens))
      [] p.op = "combine"  ->
           LET r1 == Run(p.p1, tokens)
           IN  IF r1.success THEN combine_both(tokens, r1, Run(p.p2, r1.rest))
                             ELSE combine_first(tokens, r1)
      [] p.op = "choose"   -> choose_loop(p, choose_frame(tokens))
      [] p.op = "choose_backtracking" -> choose_backtracking_loop(p, choose_frame(tokens))
      [] p.op = "map"      -> map_of(p, tokens, Run(p.p, tokens))
      [] p.op = "exists"   -> exists_of(Run(p.p, tokens))
      [] p.op = "name"     -> name_of(p, Run(p.p, tokens))
      [] p.op = "rule"     ->
           IF HasReturned(p.name, tokens) THEN returned[Len(tokens)][p.name]
                                          ELSE Run(Rule(p.name), tokens)

(***************************************************************************)
(* tokenize(input): one action per token pulled from the generator.        *)
(***************************************************************************)
Alphabet == {"o", "r", "1", "0", "x", ".", "e", "-", "\"", "/", "*", " "}

\* Inputs of the documented examples, beside every text over Alphabet.
ExampleInputs ==
    { <<"l", "o", "n", "g">>,
      <<"l", "o", "n", "g", "e", "r">>,
      <<"l", "o", "n", "g", " ", "x">>,
      <<"/", "*", "*", "/">>,
      <<"/", "/", "o", "\n", "r">>,
      <<"1", ".", "0", "e", "-", "1">>,
      <<"-", "0", "x", "1", "e">>,
      <<"\"", "o", " ", "\"", "r">>,
      <<".", ".", ".", ".", "1">>,
      <<"/", "*", "\r", "*", "/">>,
      <<"/", "*", "\n", "*", "/", "*", "/">>,
      <<"0", "x", "1", "F", "g">>,
      <<"-", "I", "n", "f", "i", "n", "i", "t", "y">>,
      <<"_", "a", "_", "1">>,
      <<"\"", "a", "\n", "\"", "\"">> }

Inputs == SeqsUpTo(Alphabet, MaxLen) \cup ExampleInputs

TokInit ==
    /\ input \in Inputs
    /\ position = 0
    /\ lastIndex = [k \in {PatternOrder[i] : i \in 1..Len(PatternOrder)} |-> 0]
    /\ yielded = <<>>
    /\ tpc = "running"
    /\ parser = fail /\ frame = undefined /\ runs = <<>>
    /\ driver = "none" /\ dpc = "idle" /\ returned = <<>> /\ definitions = undefined /\ handed = <<>>
    /\ statements = undefined /\ writer = undefined /\ calls = <<>>

\* One pass of the while loop, up to its yield.
TokenizeNext ==
    /\ tpc = "running"
    /\ position < Len(input)
    /\ LET ms == matches(input, lastIndex)
       IN  IF ms = <<>>
             THEN /\ tpc' = "thrown"
                  /\ UNCHANGED <<position, lastIndex, yielded>>
             ELSE LET lm == longest_match(ms)
                      span == [text |-> Substr(input, lastIndex[lm.kind], lm.m.len),
                               position |-> position]
                  IN  /\ yielded' = Append(yielded, [kind |-> lm.kind, span |-> span])
                      /\ position' = position + lm.m.len
                      /\ lastIndex' = ResetLastIndex(lastIndex, position + lm.m.len)
                      /\ tpc' = "running"
    /\ UNCHANGED <<input, combVars, drvVars>>

\* The loop is left and the end-of-file token is yielded.
TokenizeEof ==
    /\ tpc = "running"
    /\ position >= Len(input)
    /\ yielded' = Append(yielded, EofToken(position))
    /\ tpc' = "done"
    /\ UNCHANGED <<input, position, lastIndex, combVars, drvVars>>

TokNext == TokenizeNext \/ TokenizeEof

SpecTok == TokInit /\ [][TokNext]_vars

(***************************************************************************)
(* One call of a combinator, step by step: frame holds the locals of the   *)
(* call of parser on frame.tokens, and runs records, in order, each run of *)
(* a parser given to the combinator: which one, on what, with what result. *)
(***************************************************************************)
call_frame(tokens) == [tokens |-> tokens, done |-> FALSE, result |-> undefined]

NewFrame(p, tokens) ==
    CASE p.op = "many"   -> many_frame(tokens)
      [] p.op = "create" -> create_frame(tokens)
      [] p.op \in {"choose", "choose_backtracking"} -> choose_frame(tokens)
      [] OTHER -> call_frame(tokens)

Ran(i, tokens, result) == [i |-> i, at |-> tokens, res |-> result]

Returned(f, result) == [f EXCEPT !.done = TRUE, !.result = result]

TextA == <<"a">>

TextB == <<"b">>

TextSemi == <<";">>

\* The kinds and texts the token lists are made of.
CombTokens ==
    { [kind |-> "identifier", text |-> TextA],
      [kind |-> "identifier", text |-> TextB],
      [kind |-> "other", text |-> TextSemi] }

\* Tokens of the given kinds and texts, each placed after the one before it.
RECURSIVE Placed(_, _)
Placed(kts, pos) ==
    IF kts = <<>> THEN <<>>
    ELSE <<Token(Head(kts).kind, Head(kts).text, pos)>>
           \o Placed(Tail(kts), pos + Len(Head(kts).text))

TokenLists == {Placed(kts, 0) : kts \in SeqsUpTo(CombTokens, MaxToks)}

\* The parsers given to the combinators.
SubA == token("identifier", Text(TextA))

SubSemi == token("other", Text(TextSemi))

SubId == token("identifier", NoText)

SubASemi == create(<<SubA, SubSemi>>, "values")

SubParsers ==
    { SubA, SubSemi, SubId, fail, constant(null), SubASemi,
      optional(SubA, null), many(SubA), create(<<SubId, SubId>>, "values") }

TopParsers ==
    {token(k, t) : k \in {"identifier", "other", "eof"}, t \in {NoText, Text(TextA), Text(TextSemi)}}
      \cup {fail, constant(Bool(TRUE))}
      \cup {many(q) : q \in SubParsers}
      \cup {optional(q, Bool(FALSE)) : q \in SubParsers}
      \cup {create(<<>>, "values")}
      \cup {create(<<q>>, "values") : q \in SubParsers}
      \cup {create(<<q1, q2>>, "values") : q1 \in SubParsers, q2 \in SubParsers}
      \cup {create(<<SubId, q1, q2>>, "values") : q1 \in {SubId, SubSemi}, q2 \in SubParsers}
      \cup {choose(<<>>)}
      \cup {choose(<<q>>) : q \in SubParsers}
      \cup {choose(<<q1, q2>>) : q1 \in SubParsers, q2 \in SubParsers}
      \cup {choose(<<fail, q1, q2>>) : q1 \in {SubASemi, SubSemi}, q2 \in SubParsers}
      \cup {choose_backtracking(<<q>>) : q \in SubParsers}
      \cup {choose_backtracking(<<q1, q2>>) : q1 \in SubParsers, q2 \in SubParsers}
      \cup {choose_backtracking(<<SubASemi, q1, q2>>) : q1 \in {SubASemi, SubSemi}, q2 \in SubParsers}
      \cup {combine(q1, q2) : q1 \in SubParsers, q2 \in SubParsers}
      \cup {map(q, "f") : q \in SubParsers}
      \cup {exists(q) : q \in SubParsers}
      \cup {name(q, <<"n">>) : q \in SubParsers}
      \cup {name(exists(q), <<"n">>) : q \in {SubA, SubASemi, fail}}

CombInit ==
    /\ parser \in TopParsers
    /\ \E tokens \in TokenLists : frame = NewFrame(parser, tokens)
    /\ runs = <<>>
    /\ input = <<>> /\ position = 0 /\ lastIndex = <<>> /\ yielded = <<>> /\ tpc = "idle"
    /\ driver = "none" /\ dpc = "idle" /\ returned = <<>> /\ definitions = undefined /\ handed = <<>>
    /\ statements = undefined /\ writer = undefined /\ calls = <<>>

ManyStep ==
    /\ parser.op = "many" /\ ~frame.done
    /\ Len(frame.values) < MaxIter
    /\ LET result == Run(parser.p, frame.rest)
       IN  /\ frame' = many_iter(frame, result)
           /\ runs' = Append(runs, Ran(Len(runs) + 1, frame.rest, result))
    /\ UNCHANGED <<parser, tokVars, drvVars>>

CreateStep ==
    /\ parser.op = "create" /\ ~frame.done
    /\ IF frame.i > Len(parser.steps)
         THEN /\ frame' = create_done(parser, frame)
              /\ UNCHANGED runs
         ELSE LET result == Run(parser.steps[frame.i], frame.rest)
              IN  /\ frame' = create_iter(frame, result)
                  /\ runs' = Append(runs, Ran(frame.i, frame.rest, result))
    /\ UNCHANGED <<parser, tokVars, drvVars>>

ChooseStep ==
    /\ parser.op = "choose" /\ ~frame.done
    /\ IF frame.i > Len(parser.parsers)
         THEN /\ frame' = choose_none(frame)
              /\ UNCHANGED runs
         ELSE LET result == Run(parser.parsers[frame.i], frame.tokens)
              IN  /\ frame' = choose_iter(frame, result)
                  /\ runs' = Append(runs, Ran(frame.i, frame.tokens, result))
    /\ UNCHANGED <<parser, tokVars, drvVars>>

ChooseBacktrackingStep ==
    /\ parser.op = "choose_backtracking" /\ ~frame.done
    /\ IF frame.i > Len(parser.parsers)
         THEN /\ frame' = choose_none(frame)
              /\ UNCHANGED runs
         ELSE LET result == Run(parser.parsers[frame.i], frame.tokens)
              IN  /\ frame' = choose_backtracking_iter(frame, result)
                  /\ runs' = Append(runs, Ran(frame.i, frame.tokens, result))
    /\ UNCHANGED <<parser, tokVars, drvVars>>

OptionalCall ==
    /\ parser.op = "optional" /\ ~frame.done
    /\ LET result == Run(parser.p, frame.tokens)
       IN  /\ frame' = Returned(frame, optional_of(parser, frame.tokens, result))
           /\ runs' = <<Ran(1, frame.tokens, result)>>
    /\ UNCHANGED <<parser, tokVars, drvVars>>

TokenCall ==
    /\ parser.op = "token" /\ ~frame.done
    /\ frame' = Returned(frame, token_run(parser, frame.tokens))
    /\ UNCHANGED <<parser, runs, tokVars, drvVars>>

FailCall ==
    /\ parser.op = "fail" /\ ~frame.done
    /\ frame' = Returned(frame, fail_run(frame.tokens))
    /\ UNCHANGED <<parser, runs, tokVars, drvVars>>

ConstantCall ==
    /\ parser.op = "constant" /\ ~frame.done
    /\ frame' = Returned(frame, constant_run(parser, frame.tokens))
    /\ UNCHANGED <<parser, runs, tokVars, drvVars>>

CombineCall ==
    /\ parser.op = "combine" /\ ~frame.done
    /\ LET r1 == Run(parser.p1, frame.tokens)
           r2 == Run(parser.p2, r1.rest)
       IN  IF r1.success
             THEN /\ frame' = Returned(frame, combine_both(frame.tokens, r1, r2))
                  /\ runs' = <<Ran(1, frame.tokens, r1), Ran(2, r1.rest, r2)>>
             ELSE /\ frame' = Returned(frame, combine_first(frame.tokens, r1))
                  /\ runs' = <<Ran(1, frame.tokens, r1)>>
    /\ UNCHANGED <<parser, tokVars, drvVars>>

MapCall ==
    /\ parser.op = "map" /\ ~frame.done
    /\ LET result == Run(parser.p, frame.tokens)
       IN  /\ frame' = Returned(frame, map_of(parser, frame.tokens, result))
           /\ runs' = <<Ran(1, frame.tokens, result)>>
    /\ UNCHANGED <<parser, tokVars, drvVars>>

ExistsCall ==
    /\ parser.op = "exists" /\ ~frame.done
    /\ LET result == Run(parser.p, frame.tokens)
       IN  /\ frame' = Returned(frame, exists_of(result))
           /\ runs' = <<Ran(1, frame.tokens, result)>>
    /\ UNCHANGED <<parser, tokVars, drvVars>>

NameCall ==
    /\ parser.op = "name" /\ ~frame.done
    /\ LET result == Run(parser.p, frame.tokens)
       IN  /\ frame' = Returned(frame, name_of(parser, result))
           /\ runs' = <<Ran(1, frame.tokens, result)>>
    /\ UNCHANGED <<parser, tokVars, drvVars>>

CombNext ==
    \/ ManyStep \/ CreateStep \/ ChooseStep \/ ChooseBacktrackingStep
    \/ OptionalCall \/ TokenCall \/ FailCall \/ ConstantCall
    \/ CombineCall \/ MapCall \/ ExistsCall \/ NameCall

SpecComb == CombInit /\ [][CombNext]_vars

\* The while loop of many is not left between two of its passes.
SpecCombFair == SpecComb /\ WF_vars(ManyStep)

(***************************************************************************)
(* The back end: Writer, Emitter, TypeMapping and Generator of the module  *)
(* typescript, and the Emitter of the namespace microsoft.typescript.  A   *)
(* node of the target model is a record tagged by the field syntax.        *)
(***************************************************************************)
\* The string literals of the back end, as characters.
L(w) ==
    CASE w = "interface" -> <<"i", "n", "t", "e", "r", "f", "a", "c", "e">>
      [] w = "extends" -> <<"e", "x", "t", "e", "n", "d", "s">>
      [] w = "declare" -> <<"d", "e", "c", "l", "a", "r", "e">>
      [] w = "var" -> <<"v", "a", "r">>
      [] w = "type" -> <<"t", "y", "p", "e">>
      [] w = "void" -> <<"v", "o", "i", "d">>
      [] w = "new" -> <<"n", "e", "w">>
      [] w = "prototype" -> <<"p", "r", "o", "t", "o", "t", "y", "p", "e">>
      [] w = "string" -> <<"s", "t", "r", "i", "n", "g">>
      [] w = "number" -> <<"n", "u", "m", "b", "e", "r">>
      [] w = "Promise<" -> <<"P", "r", "o", "m", "i", "s", "e", "<">>
      [] w = "ByteString" -> <<"B", "y", "t", "e", "S", "t", "r", "i", "n", "g">>
      [] w = "DOMString" -> <<"D", "O", "M", "S", "t", "r", "i", "n", "g">>
      [] w = "USVString" -> <<"U", "S", "V", "S", "t", "r", "i", "n", "g">>
      [] w = "byte" -> <<"b", "y", "t", "e">>
      [] w = "octet" -> <<"o", "c", "t", "e", "t">>
      [] w = "Constructor" -> <<"C", "o", "n", "s", "t", "r", "u", "c", "t", "o", "r">>
      [] w = "NamedConstructor" -> <<"N", "a", "m", "e", "d", "C", "o", "n", "s", "t", "r", "u", "c", "t", "o", "r">>
      [] w = "\r\n" -> <<"\r", "\n">>
      [] w = "\t" -> <<"\t">>
      [] w = " | " -> <<" ", "|", " ">>
      [] w = ", " -> <<",", " ">>
      [] w = "[]" -> <<"[", "]">>
      [] w = "//" -> <<"/", "/">>
      [] w = "" -> <<>>
      [] OTHER -> <<w>>

\* texts.join(separator)
RECURSIVE join(_, _)
join(texts, separator) ==
    IF Len(texts) = 0 THEN <<>>
    ELSE IF Len(texts) = 1 THEN texts[1]
    ELSE texts[1] \o separator \o join(Tail(texts), separator)

\* text.repeat(count)
RECURSIVE repeat(_, _)
repeat(text, count) == IF count = 0 THEN <<>> ELSE text \o repeat(text, count - 1)

\* new Writer(): linebreak, space and tab are the defaults.
Writer ==
    [text |-> <<>>, indentation |-> 0, begin |-> TRUE,
     linebreak |-> L("\r\n"), space |-> L(" "), tab |-> L("\t")]

\* append joining the texts with nothing between them.
append_unspaced(w, text) ==
    LET begun == IF w.begin THEN w.text \o repeat(w.tab, w.indentation) ELSE w.text
    IN  [w EXCEPT !.text = begun \o join(text, <<>>), !.begin = FALSE]

\* Writer.append(...text)
append(w, text) ==
    LET begun == IF w.begin THEN w.text \o repeat(w.tab, w.indentation) ELSE w.text
    IN  [w EXCEPT !.text = begun \o join(text, w.space), !.begin = FALSE]

\* Writer.appendln(...text)
appendln(w, text) == [append(w, text \o <<w.linebreak>>) EXCEPT !.begin = TRUE]

\* Writer.indent()
indent(w) == [w EXCEPT !.indentation = w.indentation + 1]

\* Writer.unindent()
unindent(w) ==
    [w EXCEPT !.indentation = IF w.indentation - 1 > 0 THEN w.indentation - 1 ELSE 0]

(***************************************************************************)
(* A Writer alone: one action per method, called with any of a few lists   *)
(* of texts; calls records each call with the depth and the flag it found. *)
(***************************************************************************)
\* The lists of texts append and appendln are called with.
WriterTexts == {<<>>, <<L("")>>, <<L("a")>>, <<L("a"), L(";")>>}

Call(op, text) ==
    [op |-> op, text |-> text, indentation |-> writer.indentation, begin |-> writer.begin]

WriterInit ==
    /\ writer = Writer /\ calls = <<>>
    /\ input = <<>> /\ position = 0 /\ lastIndex = <<>> /\ yielded = <<>> /\ tpc = "idle"
    /\ parser = fail /\ frame = undefined /\ runs = <<>>
    /\ driver = "none" /\ dpc = "idle" /\ returned = <<>> /\ definitions = undefined
    /\ handed = <<>> /\ statements = undefined

WriterAppend ==
    /\ Len(calls) < MaxCalls
    /\ \E text \in WriterTexts :
         /\ writer' = append(writer, text)
         /\ calls' = Append(calls, Call("append", text))
    /\ UNCHANGED <<tokVars, combVars, driver, dpc, returned, definitions, handed, statements>>

WriterAppendln ==
    /\ Len(calls) < MaxCalls
    /\ \E text \in WriterTexts :
         /\ writer' = appendln(writer, text)
         /\ calls' = Append(calls, Call("appendln", text))
    /\ UNCHANGED <<tokVars, combVars, driver, dpc, returned, definitions, handed, statements>>

WriterIndent ==
    /\ Len(calls) < MaxCalls
    /\ writer' = indent(writer)
    /\ calls' = Append(calls, Call("indent", <<>>))
    /\ UNCHANGED <<tokVars, combVars, driver, dpc, returned, definitions, handed, statements>>

WriterUnindent ==
    /\ Len(calls) < MaxCalls
    /\ writer' = unindent(writer)
    /\ calls' = Append(calls, Call("unindent", <<>>))
    /\ UNCHANGED <<tokVars, combVars, driver, dpc, returned, definitions, handed, statements>>

WriterNext == WriterAppend \/ WriterAppendln \/ WriterIndent \/ WriterUnindent

SpecWriter == WriterInit /\ [][WriterNext]_vars

\* new model.SimpleType(optional, span)
SimpleType(isOptional, span) ==
    [syntax |-> "SimpleType", optional |-> isOptional, span |-> span]

\* TypeMapping.primitive without its case for byte and octet.
primitive_strings(text) ==
    CASE text \in {L("ByteString"), L("DOMString"), L("USVString")} -> L("string")
      [] OTHER -> text

\* TypeMapping.primitive
primitive(text) ==
    CASE text \in {L("ByteString"), L("DOMString"), L("USVString")} -> L("string")
      [] text \in {L("byte"), L("octet")} -> L("number")
      [] OTHER -> text

\* type.accept(mapping): the visit method of TypeMapping for each type node.
RECURSIVE TypeMapping(_)
TypeMapping(type) ==
    CASE type.node = "SimpleType" ->
           SimpleType(Bool(FALSE), [text |-> primitive(type.span.text), position |-> -1])
      [] type.node = "NullableType" ->
           SimpleType(Bool(TRUE), TypeMapping(type.type).span)
      [] type.node \in {"SequenceType", "FrozenArrayType"} ->
           SimpleType(Bool(FALSE),
                      [text |-> TypeMapping(type.type).span.text \o L("[]"), position |-> -1])
      [] type.node = "PromiseType" ->
           SimpleType(Bool(FALSE),
                      [text |-> L("Promise<") \o TypeMapping(type.type).span.text \o L(">"),
                       position |-> -1])
      [] type.node = "UnionType" ->
           LET texts == [i \in 1..Len(type.types) |-> TypeMapping(type.types[i]).span.text]
           IN  SimpleType(Bool(FALSE),
                          [text |-> L("(") \o join(texts, L(" | ")) \o L(")"),
                           position |-> -1])
      [] type.node \in {"FloatType", "IntegerType"} ->
           SimpleType(Bool(FALSE), [text |-> L("number"), position |-> -1])

\* flatten(lists)
RECURSIVE flatten(_)
flatten(lists) == IF Len(lists) = 0 THEN <<>> ELSE lists[1] \o flatten(Tail(lists))

\* Generator.argument keeping the type of the source.
argument_unmapped(arg) ==
    [syntax |-> "Argument", identifier |-> arg.identifier, optional |-> arg.optional,
     type |-> arg.type]

\* Generator.argument
argument(arg) ==
    [syntax |-> "Argument", identifier |-> arg.identifier, optional |-> arg.optional,
     type |-> TypeMapping(arg.type)]

\* lookupMany(options, identifier)
lookupMany(options, text) ==
    SelectSeq(options, LAMBDA o : o.identifier.text = text)

\* InterfaceDefinition.getConstructors
getConstructors(def) ==
    lookupMany(def.attributes, L("Constructor"))
      \o lookupMany(def.attributes, L("NamedConstructor"))

\* Array.isArray(value) for a span or an array.
IsArray(value) == ~Same(DOMAIN value, {"text", "position"})

\* Whether def.accept(generator) throws: attr.args.map of
\* visitInterfaceDefinition is no function when args is a span.
GeneratorThrows(def) ==
    /\ def.node = "InterfaceDefinition"
    /\ \E i \in 1..Len(getConstructors(def)) :
         /\ getConstructors(def)[i].node = "ExtendedAttributeArgList"
         /\ ~IsArray(getConstructors(def)[i].args)

\* visitDictionaryMember making optional the members that are not required.
visitDictionaryMember_required(mem) ==
    <<[syntax |-> "AttributeMember", identifier |-> mem.identifier,
       optional |-> Bool(~Truthy(mem.required)), type |-> TypeMapping(mem.type),
       def |-> null]>>

\* Generator.visitDictionaryMember
visitDictionaryMember(mem) ==
    <<[syntax |-> "AttributeMember", identifier |-> mem.identifier,
       optional |-> Bool(TRUE), type |-> TypeMapping(mem.type), def |-> null]>>

\* node.accept(generator): the visit method of Generator for each definition
\* and member node.
RECURSIVE Generator(_)
Generator(node) ==
    CASE node.node = "InterfaceDefinition" ->
           LET isStatic(mem) == mem.node = "StaticMember"
               accepted(mems) == flatten([i \in 1..Len(mems) |-> Generator(mems[i])])
               members == accepted(SelectSeq(node.members, LAMBDA mem : ~isStatic(mem)))
               stmt == [syntax |-> "Interface", identifier |-> node.identifier,
                        inheritance |-> <<node.inheritance>>, members |-> members]
               ref == SimpleType(Bool(FALSE), node.identifier)
               prototype == [syntax |-> "AttributeMember",
                             identifier |-> [text |-> L("prototype"), position |-> -1],
                             optional |-> Bool(FALSE), type |-> ref, def |-> null]
               ctor(attr) ==
                   [syntax |-> "MethodMember",
                    identifier |-> [text |-> L("new"), position |-> -1],
                    optional |-> Bool(FALSE), rtype |-> ref,
                    args |-> IF attr.node = "ExtendedAttributeArgList"
                               THEN [i \in 1..Len(attr.args) |-> argument(attr.args[i])]
                               ELSE <<>>]
               ctors == getConstructors(node)
               static_statements ==
                   <<prototype>> \o accepted(SelectSeq(node.members, LAMBDA mem : isStatic(mem)))
                     \o [i \in 1..Len(ctors) |-> ctor(ctors[i])]
           IN  IF Len(static_statements) > 1
                 THEN <<stmt, [syntax |-> "Declaration", identifier |-> node.identifier,
                               type |-> [syntax |-> "ConstructedType",
                                         statements |-> static_statements]]>>
                 ELSE <<stmt>>
      [] node.node = "DictionaryDefinition" ->
           <<[syntax |-> "Interface", identifier |-> node.identifier,
              inheritance |-> <<node.inheritance>>,
              members |-> flatten([i \in 1..Len(node.members) |-> Generator(node.members[i])])]>>
      [] node.node = "EnumDefinition" ->
           <<[syntax |-> "Enum", identifier |-> node.identifier, options |-> node.values]>>
      [] node.node = "Typedef" ->
           <<[syntax |-> "Typedef", identifier |-> node.identifier,
              type |-> TypeMapping(node.type)]>>
      [] node.node = "ImplementsStatement" ->
           Generator([node |-> "InterfaceDefinition", identifier |-> node.identifier,
                      inheritance |-> node.name, members |-> <<>>, attributes |-> <<>>])
      [] node.node \in {"ConstMember", "AttributeMember"} ->
           <<[syntax |-> "AttributeMember", identifier |-> node.identifier,
              optional |-> Bool(FALSE), type |-> TypeMapping(node.type), def |-> null]>>
      [] node.node = "OperationMember" ->
           <<[syntax |-> "MethodMember", identifier |-> node.identifier,
              optional |-> Bool(FALSE),
              rtype |-> IF Truthy(node.rtype) THEN TypeMapping(node.rtype) ELSE null,
              args |-> [i \in 1..Len(node.args) |-> argument(node.args[i])]]>>
      [] node.node \in {"StaticMember", "IterableMember", "MaplikeMember", "SetlikeMember"} ->
           <<>>
      [] node.node = "DictionaryMember" -> visitDictionaryMember(node)

\* generate(defs) of cmd, and the map and reduce of the other drivers.
generate(defs) == flatten([i \in 1..Len(defs) |-> Generator(defs[i])])

\* The comparison cmp_many(...cmps) returns.
cmp_many(a, b) == 0

\* The orders array.sort(cmp) may leave an array in, cmp being the comparison
\* cmp_many returns: every arrangement of it that cmp does not contradict.
sort(array) ==
    LET n == Len(array)
        orders == {o \in [1..n -> 1..n] : \A i, j \in 1..n : i # j => o[i] # o[j]}
    IN  {[i \in 1..n |-> array[o[i]]] : o \in
           {o \in orders : \A i, j \in 1..n : i < j => cmp_many(array[o[i]], array[o[j]]) <= 0}}

\* The statements as the sorts of the Emitter of the module may leave them:
\* stmt.members of an Interface and type.statements of a ConstructedType are
\* sorted in place when the statement is visited.
RECURSIVE Sorted(_)
Sorted(stmts) ==
    IF Len(stmts) = 0 THEN {<<>>}
    ELSE LET stmt == stmts[1]
             first ==
               CASE stmt.syntax = "Interface" ->
                      {[stmt EXCEPT !.members = m] : m \in sort(stmt.members)}
                 [] stmt.syntax = "Declaration" /\ stmt.type.syntax = "ConstructedType" ->
                      {[stmt EXCEPT !.type.statements = m] :
                         m \in sort(stmt.type.statements)}
                 [] OTHER -> {stmt}
         IN  {<<f>> \o rest : f \in first, rest \in Sorted(Tail(stmts))}

\* node.accept(emitter): the visit method for each node of the target model,
\* of the Emitter of the module ("typescript") and of the Emitter of the
\* namespace ("microsoft.typescript"); forEach visits a list, entries the
\* arguments of a method.  The members visited are those the sort has left.
RECURSIVE Emitter(_, _, _)
RECURSIVE forEach(_, _, _)
RECURSIVE entries(_, _, _)
forEach(namespace, w, nodes) ==
    IF Len(nodes) = 0 THEN w
    ELSE forEach(namespace, Emitter(namespace, w, nodes[1]), Tail(nodes))

entries(namespace, w, args) ==
    IF Len(args) = 0 THEN w
    ELSE LET visited == Emitter(namespace, w, args[1])
         IN  IF Len(args) # 1
               THEN entries(namespace, append(visited, <<L(","), L("")>>), Tail(args))
               ELSE visited

Emitter(namespace, w, node) ==
    CASE node.syntax = "Interface" ->
           LET named == append(w, <<L("interface"), node.identifier.text>>)
               spans == SelectSeq(node.inheritance,
                                  LAMBDA span : ~Same(span, null) /\ ~Same(span, undefined))
               texts == [i \in 1..Len(spans) |-> spans[i].text]
               extended == IF Len(spans) > 0
                             THEN append(named, <<L(""), L("extends"), join(texts, L(", "))>>)
                             ELSE named
               opened == indent(appendln(extended, <<L(""), L("{")>>))
               closed == appendln(unindent(forEach(namespace, opened, node.members)),
                                  <<L("}")>>)
           IN  IF namespace = "microsoft.typescript" THEN appendln(closed, <<>>) ELSE closed
      [] node.syntax = "Declaration" ->
           LET named == append(append(w, <<L("declare"), L("var"), node.identifier.text>>),
                               <<L(":"), L("")>>)
               ended == appendln(Emitter(namespace, named, node.type), <<L(";")>>)
           IN  IF namespace = "microsoft.typescript" THEN appendln(ended, <<>>) ELSE ended
      [] node.syntax = "Typedef" ->
           LET named == append(w, <<L("declare"), L("type"), node.identifier.text, L("="),
                                    L("")>>)
           IN  appendln(Emitter(namespace, named, node.type), <<L(";")>>)
      [] node.syntax = "Enum" ->
           LET options == join([i \in 1..Len(node.options) |-> node.options[i].text], L(" | "))
               typedef == [syntax |-> "Typedef", identifier |-> node.identifier,
                           type |-> SimpleType(Bool(FALSE),
                                               [text |-> L("string"), position |-> -1])]
           IN  IF namespace = "microsoft.typescript"
                 THEN appendln(Emitter(namespace, w, typedef),
                               <<L("//"), L("declare"), L("type"), node.identifier.text,
                                 L("="), options>>)
                 ELSE appendln(append(w, <<L("declare"), L("type"), node.identifier.text,
                                           L("="), options>>),
                               <<L(";")>>)
      [] node.syntax = "MethodMember" ->
           IF namespace = "typescript" /\ ~Truthy(node.identifier) THEN w
           ELSE LET named == append(append(w, <<node.identifier.text>>), <<L("(")>>)
                    listed == append(append(entries(namespace, named, node.args), <<L(")")>>),
                                     <<L(":"), L("")>>)
                    typed == IF Truthy(node.rtype) THEN Emitter(namespace, listed, node.rtype)
                                                   ELSE append(listed, <<L("void")>>)
                IN  appendln(typed, <<L(";")>>)
      [] node.syntax = "Argument" ->
           LET named == append(w, <<node.identifier.text>>)
               marked == IF Truthy(node.optional) THEN append(named, <<L("?")>>) ELSE named
           IN  append(marked, <<L(":"), node.type.span.text>>)
      [] node.syntax = "AttributeMember" ->
           LET named == append(w, <<node.identifier.text>>)
               marked == IF Truthy(node.optional) THEN append(named, <<L("?")>>) ELSE named
               typed == Emitter(namespace, append(marked, <<L(":"), L("")>>), node.type)
           IN  appendln(typed, <<L(";")>>)
      [] node.syntax = "SimpleType" ->
           append(w, <<node.span.text>>)
      [] node.syntax = "ConstructedType" ->
           LET opened == indent(appendln(w, <<L("{")>>))
           IN  append(unindent(forEach(namespace, opened, node.statements)), <<L("}")>>)

\* Whether a visit of the Emitter throws: mem.identifier.text of the
\* namespace's visitMethodMember, when the method has no identifier.
EmitterThrows(namespace, stmts) ==
    /\ namespace = "microsoft.typescript"
    /\ \E i \in 1..Len(stmts) :
         LET members == CASE stmts[i].syntax = "Interface" -> stmts[i].members
                          [] stmts[i].syntax = "Declaration" -> stmts[i].type.statements
                          [] OTHER -> <<>>
         IN  \E j \in 1..Len(members) :
               members[j].syntax = "MethodMember" /\ ~Truthy(members[j].identifier)

(***************************************************************************)
(* The drivers of the pipeline: the change handler of the app, the         *)
(* jsdom.env callback that parses in place, and the jsdom.env callback of  *)
(* cmd that calls parse, generate and emit.  Each tokenizes its text with  *)
(* the actions of tokenize, parses the tokens left by the filter, and      *)
(* hands definitions to generation or reports the errors.                  *)
(***************************************************************************)
\* www.webidl.COMMON
COMMON ==
    <<"t", "y", "p", "e", "d", "e", "f", " ", "(", "I", "n", "t", "8", "A", "r", "r", "a",
      "y", " ", "o", "r", " ", "I", "n", "t", "1", "6", "A", "r", "r", "a", "y", " ", "o",
      "r", " ", "I", "n", "t", "3", "2", "A", "r", "r", "a", "y", " ", "o", "r", " ", "U",
      "i", "n", "t", "8", "A", "r", "r", "a", "y", " ", "o", "r", " ", "U", "i", "n", "t",
      "1", "6", "A", "r", "r", "a", "y", " ", "o", "r", " ", "U", "i", "n", "t", "3", "2",
      "A", "r", "r", "a", "y", " ", "o", "r", " ", "U", "i", "n", "t", "8", "C", "l", "a",
      "m", "p", "e", "d", "A", "r", "r", "a", "y", " ", "o", "r", " ", "F", "l", "o", "a",
      "t", "3", "2", "A", "r", "r", "a", "y", " ", "o", "r", " ", "F", "l", "o", "a", "t",
      "6", "4", "A", "r", "r", "a", "y", " ", "o", "r", " ", "D", "a", "t", "a", "V", "i",
      "e", "w", ")", " ", "A", "r", "r", "a", "y", "B", "u", "f", "f", "e", "r", "V", "i",
      "e", "w", ";", "t", "y", "p", "e", "d", "e", "f", " ", "(", "A", "r", "r", "a", "y",
      "B", "u", "f", "f", "e", "r", "V", "i", "e", "w", " ", "o", "r", " ", "A", "r", "r",
      "a", "y", "B", "u", "f", "f", "e", "r", ")", " ", "B", "u", "f", "f", "e", "r", "S",
      "o", "u", "r", "c", "e", ";", "t", "y", "p", "e", "d", "e", "f", " ", "u", "n", "s",
      "i", "g", "n", "e", "d", " ", "l", "o", "n", "g", " ", "l", "o", "n", "g", " ", "D",
      "O", "M", "T", "i", "m", "e", "S", "t", "a", "m", "p", ";">>

\* Texts of the textarea and of the extracted pre elements:
\*   interface A { };
\*   ;
\*   typedef long T;
\*   interface A {
\*   enum E { "a" };
\*   partial interface A { };
\*   [X] interface B : A { readonly attribute long? x; };
IdlParts ==
    { <<"i", "n", "t", "e", "r", "f", "a", "c", "e", " ", "A", " ", "{", " ", "}", ";">>,
      <<";">>,
      <<"t", "y", "p", "e", "d", "e", "f", " ", "l", "o", "n", "g", " ", "T", ";">>,
      <<"i", "n", "t", "e", "r", "f", "a", "c", "e", " ", "A", " ", "{">> }

\* parts.join("\n") of up to n parts.
RECURSIVE Joined(_)
Joined(n) ==
    IF n = 0 THEN {<<>>}
    ELSE LET shorter == Joined(n - 1)
         IN  shorter \cup IdlParts
               \cup {t \o <<"\n">> \o part : t \in shorter \ {<<>>}, part \in IdlParts}

Idls == Joined(MaxParts)

Drivers == {"app", "env", "cmd"}

DriverInit ==
    /\ driver \in Drivers
    /\ \E idl \in Idls : input = IF driver = "app" THEN COMMON \o idl ELSE idl
    /\ position = 0
    /\ lastIndex = [k \in {PatternOrder[i] : i \in 1..Len(PatternOrder)} |-> 0]
    /\ yielded = <<>>
    /\ tpc = "running"
    /\ parser = fail /\ frame = undefined /\ runs = <<>>
    /\ dpc = "tokenize" /\ returned = <<>> /\ definitions = undefined /\ handed = <<>>
    /\ statements = undefined /\ writer = undefined /\ calls = <<>>

\* The filter applied to Array.from(tokens).
Filtered(tokens) == SelectSeq(tokens, LAMBDA t : t.kind # "whitespace" /\ t.kind # "comment")

\* The success flag each driver assigns after the parse.
Accepted(r) == r.success /\ Len(r.rest) = 1 /\ r.rest[1].kind = "eof"

\* Whether every call on the tokens has returned.
AllReturned(tokens) ==
    Len(returned) = Len(tokens) /\ DOMAIN returned[Len(tokens)] = Recursive

\* The calls of the rules of one group on the last n tokens return: first on
\* the end-of-file token alone, last on all the tokens.
DriverReturn ==
    /\ dpc = "tokenize" /\ tpc = "done"
    /\ ~AllReturned(Filtered(yielded))
    /\ LET tokens == Filtered(yielded)
           open == Len(returned) > 0 /\ DOMAIN returned[Len(returned)] # Recursive
           n == IF open THEN Len(returned) ELSE Len(returned) + 1
           before == IF open THEN DOMAIN returned[n] ELSE {}
           level == CHOOSE i \in 1..Len(Levels) :
                      /\ Levels[i] \cap before = {}
                      /\ \A j \in 1..(i - 1) : Levels[j] \subseteq before
           last == SubSeq(tokens, Len(tokens) - n + 1, Len(tokens))
           rets == [r \in before \cup Levels[level] |->
                      IF r \in before THEN returned[n][r] ELSE Run(Rule(r), last)]
       IN  returned' = [i \in 1..n |-> IF i < n THEN returned[i] ELSE rets]
    /\ UNCHANGED <<tokVars, combVars, driver, dpc, definitions, handed, statements, writer, calls>>

\* The filter, the call of Definitions() and the assignment of success.
DriverParse ==
    /\ dpc = "tokenize" /\ tpc = "done"
    /\ AllReturned(Filtered(yielded))
    /\ parser' = rule("Definitions")
    /\ LET r == Run(parser', Filtered(yielded))
       IN  definitions' = [r EXCEPT !.success = Accepted(r)]
    /\ dpc' = "parsed"
    /\ UNCHANGED <<tokVars, frame, runs, driver, returned, handed, statements, writer, calls>>

\* The generation of a driver: defs.map throws on a value that is no array,
\* and a visit of the Generator may throw.
Generate(defs) ==
    /\ handed' = <<defs>>
    /\ IF \/ Same(defs, undefined) \/ Same(defs, null)
          \/ \E i \in 1..Len(defs) : GeneratorThrows(defs[i])
         THEN dpc' = "thrown" /\ UNCHANGED statements
         ELSE dpc' = "lowered" /\ statements' = generate(defs)
    /\ UNCHANGED <<writer, calls>>

\* The back end a driver uses: the change handler that of the namespace
\* microsoft.typescript, the others that of the module typescript.
Namespace == IF driver = "app" THEN "microsoft.typescript" ELSE "typescript"

\* The emission of a driver: a new Writer, a new Emitter, and the visit of
\* every statement, whose sorts leave the members in place in a new order.
DriverEmit ==
    /\ dpc = "lowered"
    /\ IF EmitterThrows(Namespace, statements)
         THEN dpc' = "thrown" /\ UNCHANGED <<statements, writer>>
         ELSE /\ statements' \in (IF Namespace = "typescript" THEN Sorted(statements)
                                                              ELSE {statements})
              /\ writer' = forEach(Namespace, Writer, statements')
              /\ dpc' = "generated"
    /\ UNCHANGED <<tokVars, combVars, driver, returned, definitions, handed, calls>>

\* if (definitions.success) of the change handler: the generation.
AppGenerate ==
    /\ driver = "app" /\ dpc = "parsed"
    /\ definitions.success
    /\ Generate(definitions.value)
    /\ UNCHANGED <<tokVars, combVars, driver, returned, definitions>>

\* The else branch of the change handler: the errors are written out.
AppReject ==
    /\ driver = "app" /\ dpc = "parsed"
    /\ ~definitions.success
    /\ dpc' = "rejected"
    /\ UNCHANGED <<tokVars, combVars, driver, returned, definitions, handed, statements, writer, calls>>

\* if (result.success) of the jsdom.env callback that parses in place.
EnvGenerate ==
    /\ driver = "env" /\ dpc = "parsed"
    /\ definitions.success
    /\ Generate(definitions.value)
    /\ UNCHANGED <<tokVars, combVars, driver, returned, definitions>>

EnvReject ==
    /\ driver = "env" /\ dpc = "parsed"
    /\ ~definitions.success
    /\ dpc' = "rejected"
    /\ UNCHANGED <<tokVars, combVars, driver, returned, definitions, handed, statements, writer, calls>>

\* The end of parse in cmd, if (result), and the call generate(defs), whose
\* defs.map throws on a value that is no array.
CmdGenerate ==
    /\ driver = "cmd" /\ dpc = "parsed"
    /\ LET defs == IF Truthy(definitions) THEN definitions.value ELSE null
       IN  Generate(defs)
    /\ UNCHANGED <<tokVars, combVars, driver, returned, definitions>>

DriverNext ==
    \/ TokenizeNext
    \/ TokenizeEof
    \/ DriverReturn
    \/ DriverParse
    \/ AppGenerate
    \/ AppReject
    \/ EnvGenerate
    \/ EnvReject
    \/ CmdGenerate
    \/ DriverEmit

SpecDriver == DriverInit /\ [][DriverNext]_vars

\* Texts of IDL the pipeline is run on: one definition or two, of each kind
\* the grammar knows, well formed and malformed.
Examples ==
    { <<"i", "n", "t", "e", "r", "f", "a", "c", "e", " ", "F", "o", "o", " ", "{", " ", "r", "e", "a", "d", "o", "n", "l", "y", " ", "a", "t", "t", "r", "i", "b", "u", "t", "e", " ", "l", "o", "n", "g", " ", "x", ";", " ", "}", ";">>,
      <<"i", "n", "t", "e", "r", "f", "a", "c", "e", " ", "{", " ", "}", ";">>,
      <<"t", "y", "p", "e", "d", "e", "f", " ", "s", "h", "o", "r", "t", " ", "C", "o", "u", "n", "t", ";", " ", "i", "n", "t", "e", "r", "f", "a", "c", "e", " ", "A", " ", "{", " ", "c", "o", "n", "s", "t", " ", "C", "o", "u", "n", "t", " ", "M", "A", "X", " ", "=", " ", "1", "0", ";", " ", "}", ";">>,
      <<"i", "n", "t", "e", "r", "f", "a", "c", "e", " ", "A", " ", "{", " ", "a", "t", "t", "r", "i", "b", "u", "t", "e", " ", "l", "o", "n", "g", " ", "b", ";", " ", "v", "o", "i", "d", " ", "a", "(", ")", ";", " ", "}", ";">>,
      <<"i", "n", "t", "e", "r", "f", "a", "c", "e", " ", "A", " ", "{", " ", "v", "o", "i", "d", " ", "b", "(", "l", "o", "n", "g", " ", "x", ")", ";", " ", "l", "o", "n", "g", " ", "a", "(", ")", ";", " ", "a", "t", "t", "r", "i", "b", "u", "t", "e", " ", "D", "O", "M", "S", "t", "r", "i", "n", "g", " ", "c", ";", " ", "}", ";">>,
      <<"e", "n", "u", "m", " ", "C", "o", "l", "o", "r", " ", "{", " ", "\"", "r", "e", "d", "\"", ",", " ", "\"", "g", "r", "e", "e", "n", "\"", " ", "}", ";">>,
      <<"e", "n", "u", "m", " ", "E", " ", "{", " ", "\"", "a", "\"", " ", "}", ";">>,
      <<"d", "i", "c", "t", "i", "o", "n", "a", "r", "y", " ", "D", " ", "{", " ", "r", "e", "q", "u", "i", "r", "e", "d", " ", "l", "o", "n", "g", " ", "a", ";", " ", "D", "O", "M", "S", "t", "r", "i", "n", "g", " ", "b", " ", "=", " ", "\"", "x", "\"", ";", " ", "}", ";">>,
      <<"d", "i", "c", "t", "i", "o", "n", "a", "r", "y", " ", "D", " ", ":", " ", "B", " ", "{", " ", "s", "e", "q", "u", "e", "n", "c", "e", "<", "l", "o", "n", "g", ">", "?", " ", "c", ";", " ", "}", ";">>,
      <<"i", "n", "t", "e", "r", "f", "a", "c", "e", " ", "A", " ", "{", " ", "s", "t", "a", "t", "i", "c", " ", "a", "t", "t", "r", "i", "b", "u", "t", "e", " ", "l", "o", "n", "g", " ", "x", ";", " ", "}", ";">>,
      <<"i", "n", "t", "e", "r", "f", "a", "c", "e", " ", "A", " ", ":", " ", "B", " ", "{", " ", "s", "t", "a", "t", "i", "c", " ", "v", "o", "i", "d", " ", "f", "(", ")", ";", " ", "a", "t", "t", "r", "i", "b", "u", "t", "e", " ", "l", "o", "n", "g", " ", "y", ";", " ", "}", ";">>,
      <<"[", "C", "o", "n", "s", "t", "r", "u", "c", "t", "o", "r", "]", " ", "i", "n", "t", "e", "r", "f", "a", "c", "e", " ", "A", " ", "{", " ", "}", ";">>,
      <<"[", "C", "o", "n", "s", "t", "r", "u", "c", "t", "o", "r", ",", " ", "C", "o", "n", "s", "t", "r", "u", "c", "t", "o", "r", "(", "l", "o", "n", "g", " ", "x", ",", " ", "o", "p", "t", "i", "o", "n", "a", "l", " ", "D", "O", "M", "S", "t", "r", "i", "n", "g", " ", "y", ")", "]", " ", "i", "n", "t", "e", "r", "f", "a", "c", "e", " ", "A", " ", "{", " ", "}", ";">>,
      <<"[", "N", "a", "m", "e", "d", "C", "o", "n", "s", "t", "r", "u", "c", "t", "o", "r", "=", "I", "(", "l", "o", "n", "g", " ", "x", ")", "]", " ", "i", "n", "t", "e", "r", "f", "a", "c", "e", " ", "A", " ", "{", " ", "a", "t", "t", "r", "i", "b", "u", "t", "e", " ", "l", "o", "n", "g", " ", "y", ";", " ", "}", ";">>,
      <<"[", "C", "o", "n", "s", "t", "r", "u", "c", "t", "o", "r", "(", "l", "o", "n", "g", " ", "x", ")", ",", " ", "E", "x", "p", "o", "s", "e", "d", "=", "W", "]", " ", "i", "n", "t", "e", "r", "f", "a", "c", "e", " ", "A", " ", "{", " ", "s", "t", "a", "t", "i", "c", " ", "a", "t", "t", "r", "i", "b", "u", "t", "e", " ", "l", "o", "n", "g", " ", "y", ";", " ", "}", ";">>,
      <<"[", "X", "]", " ", "i", "n", "t", "e", "r", "f", "a", "c", "e", " ", "A", " ", "{", " ", "}", ";">>,
      <<"[", "X", "(", "l", "o", "n", "g", " ", "a", ")", "]", " ", "i", "n", "t", "e", "r", "f", "a", "c", "e", " ", "A", " ", "{", " ", "}", ";">>,
      <<"[", "X", "=", "Y", "]", " ", "i", "n", "t", "e", "r", "f", "a", "c", "e", " ", "A", " ", "{", " ", "}", ";">>,
      <<"[", "X", "=", "(", "A", ",", "B", ")", "]", " ", "i", "n", "t", "e", "r", "f", "a", "c", "e", " ", "A", " ", "{", " ", "}", ";">>,
      <<"[", "X", "=", "Y", "(", "l", "o", "n", "g", " ", "a", ")", "]", " ", "i", "n", "t", "e", "r", "f", "a", "c", "e", " ", "A", " ", "{", " ", "}", ";">>,
      <<"[", "X", "=", "(", "A", "]", " ", "i", "n", "t", "e", "r", "f", "a", "c", "e", " ", "A", " ", "{", " ", "}", ";">>,
      <<"A", " ", "i", "m", "p", "l", "e", "m", "e", "n", "t", "s", " ", "B", ";">>,
      <<"p", "a", "r", "t", "i", "a", "l", " ", "i", "n", "t", "e", "r", "f", "a", "c", "e", " ", "A", " ", "{", " ", "}", ";">>,
      <<"i", "n", "t", "e", "r", "f", "a", "c", "e", " ", "A", " ", "{", " ", "}", ";", " ", "p", "a", "r", "t", "i", "a", "l", " ", "i", "n", "t", "e", "r", "f", "a", "c", "e", " ", "A", " ", "{", " ", "}", ";">>,
      <<"i", "n", "t", "e", "r", "f", "a", "c", "e", " ", "A", " ", "{", " ", "c", "o", "n", "s", "t", " ", "l", "o", "n", "g", " ", "C", " ", "=", " ", "1", ";", " ", "r", "e", "a", "d", "o", "n", "l", "y", " ", "a", "t", "t", "r", "i", "b", "u", "t", "e", " ", "D", "O", "M", "S", "t", "r", "i", "n", "g", " ", "s", ";", " ", "v", "o", "i", "d", " ", "f", "(", "l", "o", "n", "g", " ", "x", ",", " ", "o", "p", "t", "i", "o", "n", "a", "l", " ", "D", "O", "M", "S", "t", "r", "i", "n", "g", " ", "y", ")", ";", " ", "l", "o", "n", "g", " ", "g", "(", ")", ";", " ", "s", "t", "a", "t", "i", "c", " ", "v", "o", "i", "d", " ", "h", "(", ")", ";", " ", "i", "t", "e", "r", "a", "b", "l", "e", "<", "l", "o", "n", "g", ">", ";", " ", "m", "a", "p", "l", "i", "k", "e", "<", "D", "O", "M", "S", "t", "r", "i", "n", "g", ",", " ", "l", "o", "n", "g", ">", ";", " ", "s", "e", "t", "l", "i", "k", "e", "<", "l", "o", "n", "g", ">", ";", " ", "}", ";">>,
      <<"[", "N", "a", "m", "e", "d", "C", "o", "n", "s", "t", "r", "u", "c", "t", "o", "r", "=", "I", "m", "a", "g", "e", "]", " ", "i", "n", "t", "e", "r", "f", "a", "c", "e", " ", "A", " ", "{", " ", "}", ";">>,
      <<"i", "n", "t", "e", "r", "f", "a", "c", "e", " ", "A", " ", "{", " ", "g", "e", "t", "t", "e", "r", " ", "l", "o", "n", "g", " ", "(", "l", "o", "n", "g", " ", "i", ")", ";", " ", "}", ";">> }

\* Texts of types: each type the grammar names, and the types built of a few
\* of them by up to MaxNest of sequence, FrozenArray, Promise, ? and or.
NamedTypes ==
    { <<"b", "y", "t", "e">>, <<"o", "c", "t", "e", "t">>, <<"s", "h", "o", "r", "t">>, <<"l", "o", "n", "g">>, <<"l", "o", "n", "g", " ", "l", "o", "n", "g">>, <<"u", "n", "s", "i", "g", "n", "e", "d", " ", "s", "h", "o", "r", "t">>,
      <<"u", "n", "s", "i", "g", "n", "e", "d", " ", "l", "o", "n", "g">>, <<"u", "n", "s", "i", "g", "n", "e", "d", " ", "l", "o", "n", "g", " ", "l", "o", "n", "g">>, <<"f", "l", "o", "a", "t">>, <<"d", "o", "u", "b", "l", "e">>,
      <<"u", "n", "r", "e", "s", "t", "r", "i", "c", "t", "e", "d", " ", "f", "l", "o", "a", "t">>, <<"u", "n", "r", "e", "s", "t", "r", "i", "c", "t", "e", "d", " ", "d", "o", "u", "b", "l", "e">>, <<"b", "o", "o", "l", "e", "a", "n">>, <<"a", "n", "y">>,
      <<"B", "y", "t", "e", "S", "t", "r", "i", "n", "g">>, <<"D", "O", "M", "S", "t", "r", "i", "n", "g">>, <<"U", "S", "V", "S", "t", "r", "i", "n", "g">>, <<"o", "b", "j", "e", "c", "t">>, <<"R", "e", "g", "E", "x", "p">>, <<"E", "r", "r", "o", "r">>,
      <<"D", "O", "M", "E", "x", "c", "e", "p", "t", "i", "o", "n">>, <<"A", "r", "r", "a", "y", "B", "u", "f", "f", "e", "r">>, <<"U", "i", "n", "t", "8", "A", "r", "r", "a", "y">>, <<"F", "o", "o">> }

RECURSIVE BuiltTypes(_)
BuiltTypes(n) ==
    IF n = 0 THEN {<<"l", "o", "n", "g">>, <<"D", "O", "M", "S", "t", "r", "i", "n", "g">>, <<"F", "o", "o">>}
    ELSE LET inner == BuiltTypes(n - 1)
         IN  {<<"s", "e", "q", "u", "e", "n", "c", "e", "<">> \o t \o <<">">> : t \in inner}
               \cup {<<"F", "r", "o", "z", "e", "n", "A", "r", "r", "a", "y", "<">> \o t \o <<">">> : t \in inner}
               \cup {<<"P", "r", "o", "m", "i", "s", "e", "<">> \o t \o <<">">> : t \in inner}
               \cup {t \o <<"?">> : t \in inner}
               \cup {<<"(">> \o t \o <<" ", "o", "r", " ", "o", "c", "t", "e", "t", ")">> : t \in inner}

TypeExamples ==
    {<<"t", "y", "p", "e", "d", "e", "f", " ">> \o t \o <<" ", "T", ";">> :
       t \in NamedTypes \cup UNION {BuiltTypes(n) : n \in 1..MaxNest}}

\* The start of a driver on one of the texts; the texts of types are those of
\* the jsdom.env callback that parses in place.
PipelineInit ==
    /\ driver \in Drivers
    /\ \E idl \in Examples \cup (IF driver = "env" THEN TypeExamples ELSE {}) :
         input = IF driver = "app" THEN COMMON \o idl ELSE idl
    /\ position = 0
    /\ lastIndex = [k \in {PatternOrder[i] : i \in 1..Len(PatternOrder)} |-> 0]
    /\ yielded = <<>>
    /\ tpc = "running"
    /\ parser = fail /\ frame = undefined /\ runs = <<>>
    /\ dpc = "tokenize" /\ returned = <<>> /\ definitions = undefined /\ handed = <<>>
    /\ statements = undefined /\ writer = undefined /\ calls = <<>>

SpecPipeline == PipelineInit /\ [][DriverNext]_vars

(***************************************************************************)
(* Properties of tokenize.                                                 *)
(***************************************************************************)
RECURSIVE ConcatTexts(_)
ConcatTexts(toks) ==
    IF toks = <<>> THEN <<>> ELSE Head(toks).span.text \o ConcatTexts(Tail(toks))

\* The yielded tokens other than the end-of-file token.
NonEof == SelectSeq(yielded, LAMBDA t : t.kind # "eof")

\* 1-based place of a kind in the evaluation order.
OrderOf(kind) == CHOOSE i \in 1..Len(PatternOrder) : PatternOrder[i] = kind

\* C2: tokenize never raises, and once the end-of-file token is yielded the
\* texts of the tokens before it, concatenated in order, are the input.
C2_RoundTrip ==
    /\ tpc # "thrown"
    /\ tpc = "done" =>
         /\ yielded[Len(yielded)].kind = "eof"
         /\ ConcatTexts(SubSeq(yielded, 1, Len(yielded) - 1)) = input

\* A finished scan of an input that was cut into at least three tokens.
C2_Witness == tpc = "done" /\ Len(yielded) >= 4 /\ Len(input) = MaxLen

\* C3: every token is the longest match of any pattern at its position, of the
\* first kind in the evaluation order that reaches that length; "long" alone is
\* one keyword token, and an identifier that starts with it is one identifier.
C3_LongestMatch ==
    /\ \A i \in 1..Len(NonEof) :
         LET t == NonEof[i]
             n == Len(t.span.text)
             m(k) == exec(k, input, t.span.position)
         IN  /\ m(t.kind).matched /\ m(t.kind).len = n
             /\ \A j \in 1..Len(PatternOrder) :
                  LET o == m(PatternOrder[j])
                  IN  o.matched => /\ o.len <= n
                                   /\ (j < OrderOf(t.kind) => o.len < n)
    /\ (tpc = "done" /\ input = <<"l", "o", "n", "g">>) =>
         /\ Len(yielded) = 2
         /\ yielded[1].kind = "keyword" /\ yielded[1].span.text = input
    /\ (tpc = "done" /\ input = <<"l", "o", "n", "g", "e", "r">>) =>
         /\ Len(yielded) = 2
         /\ yielded[1].kind = "identifier" /\ yielded[1].span.text = input

\* A reserved word scanned where the keyword and identifier patterns tie.
C3_Witness ==
    /\ tpc = "done"
    /\ \E i \in 1..Len(NonEof) :
         /\ NonEof[i].kind = "keyword"
         /\ identifier_pattern(input, NonEof[i].span.position).len = Len(NonEof[i].span.text)

RECURSIVE SumLens(_)
SumLens(toks) == IF toks = <<>> THEN 0 ELSE Len(Head(toks).span.text) + SumLens(Tail(toks))

\* C4: the token sequence is finite and well placed: each token before the
\* end-of-file token has a non-empty text and starts where the texts before it
\* end, so there are at most Len(input) of them; the end-of-file token comes
\* once, last, at the input's length.
C4_FiniteSequence ==
    /\ \A i \in 1..Len(yielded) :
         yielded[i].kind # "eof" =>
           /\ Len(yielded[i].span.text) > 0
           /\ yielded[i].span.position = SumLens(SubSeq(yielded, 1, i - 1))
    /\ Len(NonEof) <= Len(input)
    /\ tpc = "running" => Len(NonEof) = Len(yielded)
    /\ tpc = "done" =>
         /\ Len(yielded) = Len(NonEof) + 1
         /\ yielded[Len(yielded)].kind = "eof"
         /\ yielded[Len(yielded)].span.position = Len(input)

\* A finished scan of a non-empty input with several tokens.
C4_Witness == tpc = "done" /\ Len(input) > 0 /\ Len(NonEof) >= 2

(***************************************************************************)
(* Properties of the combinators, over one call of each.                   *)
(***************************************************************************)
RECURSIVE ConcatErrors(_)
ConcatErrors(rs) ==
    IF rs = <<>> THEN <<>> ELSE Head(rs).res.errors \o ConcatErrors(Tail(rs))

\* Whether some run among the first k consumed input.
SomeConsumed(k) == \E j \in 1..k : runs[j].res.consumed

\* Each run after the first was given the rest of the run before it.
Threaded ==
    \A j \in 1..Len(runs) :
      runs[j].at = IF j = 1 THEN frame.tokens ELSE runs[j - 1].res.rest

\* The alternatives were run in order, each on the call's own input.
InOrderOnInput ==
    \A j \in 1..Len(runs) : runs[j].i = j /\ runs[j].at = frame.tokens

\* C5: choose runs its alternatives in order on the same input and stops at the
\* first one that succeeds or fails having consumed, whose result it returns; it
\* runs them all only when each failed without consuming.
C5_ChooseCommits ==
    parser.op = "choose" =>
      LET k == Len(runs)
          commits(r) == r.success \/ r.consumed
      IN  /\ InOrderOnInput
          /\ \A j \in 1..(k - 1) : ~commits(runs[j].res)
          /\ frame.done =>
               \/ k >= 1 /\ commits(runs[k].res) /\ frame.result = runs[k].res
               \/ /\ k = Len(parser.parsers)
                  /\ \A j \in 1..k : ~commits(runs[j].res)
                  /\ frame.result =
                       Result(FALSE, FALSE, undefined, frame.tokens, ConcatErrors(runs))

\* choose(A, B) returned the failure of A, which had consumed, and B never ran.
C5_Witness ==
    /\ parser.op = "choose" /\ frame.done
    /\ Len(parser.parsers) = 2 /\ Len(runs) = 1
    /\ ~frame.result.success /\ frame.result.consumed

\* C6: choose_backtracking runs its alternatives in order on the original input
\* and stops only at the first success, whose result it returns; a failure,
\* consuming or not, is followed by the next alternative, and when all fail the
\* result is a failure that consumed nothing.
C6_ChooseBacktracks ==
    parser.op = "choose_backtracking" =>
      LET k == Len(runs)
      IN  /\ InOrderOnInput
          /\ \A j \in 1..(k - 1) : ~runs[j].res.success
          /\ frame.done =>
               \/ k >= 1 /\ runs[k].res.success /\ frame.result = runs[k].res
               \/ /\ k = Len(parser.parsers)
                  /\ \A j \in 1..k : ~runs[j].res.success
                  /\ frame.result =
                       Result(FALSE, FALSE, undefined, frame.tokens, ConcatErrors(runs))

\* choose_backtracking(A, B): A consumed and failed, B ran and its success is returned.
C6_Witness ==
    /\ parser.op = "choose_backtracking" /\ frame.done
    /\ Len(parser.parsers) = 2 /\ Len(runs) = 2
    /\ ~runs[1].res.success /\ runs[1].res.consumed
    /\ frame.result.success /\ frame.result = runs[2].res

\* C7: many threads the rest through the runs of p, all of which succeed but the
\* last; a last run that consumed nothing gives success with the values of the
\* runs before it, the rest they left and consumed iff one of them consumed; a
\* last run that consumed gives failure with no value and the original input.
C7_ManyOutcome ==
    parser.op = "many" =>
      LET k == Len(runs)
      IN  /\ Threaded
          /\ \A j \in 1..(k - 1) : runs[j].res.success
          /\ frame.done =>
               /\ k >= 1 /\ ~runs[k].res.success
               /\ IF runs[k].res.consumed
                    THEN /\ ~frame.result.success
                         /\ frame.result.value = undefined
                         /\ frame.result.rest = frame.tokens
                    ELSE frame.result =
                           Result(TRUE, SomeConsumed(k - 1),
                                  [j \in 1..(k - 1) |-> runs[j].res.value],
                                  runs[k].at, <<>>)

\* many failed: a run of p succeeded and the next one consumed and failed.
C7_Witness ==
    /\ parser.op = "many" /\ frame.done
    /\ Len(runs) = 2 /\ runs[2].res.consumed
    /\ ~frame.result.success

\* C8: optional runs p once on its input; a failure of p that consumed nothing
\* becomes a success with the fallback, nothing consumed, the input as rest and
\* no errors; any other result of p is returned as it is.
C8_OptionalFallback ==
    (parser.op = "optional" /\ frame.done) =>
      LET r == runs[1].res
      IN  /\ Len(runs) = 1 /\ runs[1].at = frame.tokens
          /\ IF ~r.success /\ ~r.consumed
               THEN frame.result = Result(TRUE, FALSE, parser.fallback, frame.tokens, <<>>)
               ELSE frame.result = r

\* optional returned the failure of a p that had consumed.
C8_Witness ==
    /\ parser.op = "optional" /\ frame.done
    /\ ~runs[1].res.success /\ runs[1].res.consumed
    /\ ~frame.result.success

\* C9: create runs the yielded parsers in order, each on the rest of the one
\* before; it stops at the first failure, returning failure with the original
\* input as rest and consumed the OR over every run so far; when all succeed
\* it returns success with the rest of the last one.
C9_CreateSequence ==
    parser.op = "create" =>
      LET k == Len(runs)
      IN  /\ Threaded
          /\ \A j \in 1..k : runs[j].i = j
          /\ \A j \in 1..(k - 1) : runs[j].res.success
          /\ frame.done =>
               /\ frame.result.consumed = SomeConsumed(k)
               /\ IF k >= 1 /\ ~runs[k].res.success
                    THEN /\ ~frame.result.success
                         /\ frame.result.rest = frame.tokens
                    ELSE /\ k = Len(parser.steps)
                         /\ frame.result.success
                         /\ frame.result.rest =
                              IF k = 0 THEN frame.tokens ELSE runs[k].res.rest

\* create failed at its second parser after the first had consumed.
C9_Witness ==
    /\ parser.op = "create" /\ frame.done
    /\ Len(runs) = 2 /\ runs[1].res.consumed /\ ~runs[2].res.success
    /\ ~frame.result.success /\ frame.result.consumed
    /\ frame.result.rest = frame.tokens /\ runs[2].at # frame.tokens

\* C10: token(kind, text?) succeeds exactly when the first token has the kind,
\* and the text when one is given; it then consumes that one token and yields
\* its span; otherwise it fails, consumes nothing, leaves the input and reports
\* the one error of what was expected and the first token it got.
C10_TokenMatch ==
    (parser.op = "token" /\ frame.done) =>
      LET tokens == frame.tokens
          r == frame.result
          ok == /\ tokens # <<>>
                /\ tokens[1].kind = parser.kind
                /\ (parser.text # NoText => tokens[1].span.text = parser.text[1])
      IN  /\ r.success <=> ok
          /\ ok => /\ r.consumed /\ r.value = tokens[1].span
                   /\ r.rest = SubSeq(tokens, 2, Len(tokens))
                   /\ r.errors = <<>>
          /\ ~ok => /\ ~r.consumed /\ r.rest = tokens /\ Len(r.errors) = 1
                    /\ r.errors[1].expected.kind = parser.kind
                    /\ r.errors[1].expected.span.text = TextOf(parser)
                    /\ tokens # <<>> => r.errors[1].got = tokens[1]

\* token with a text met a token of its kind with another text, and failed.
C10_Witness ==
    /\ parser.op = "token" /\ frame.done
    /\ parser.text # NoText /\ frame.tokens # <<>>
    /\ frame.tokens[1].kind = parser.kind
    /\ ~frame.result.success

(***************************************************************************)
(* Properties of the drivers.                                              *)
(***************************************************************************)
\* A value that holds at least one definition.
HoldsDefinitions(value) ==
    ~Same(value, undefined) /\ ~Same(value, null) /\ ~Same(value, <<>>)

\* C1: in every driver, definitions are handed to generation only when
\* Definitions() reported success and the rest is exactly one end-of-file
\* token; after a failed parse or with another token left, none are handed.
C1_HandedOnlyWhenAccepted ==
    \A i \in 1..Len(handed) : HoldsDefinitions(handed[i]) => definitions.success

(***************************************************************************)
(* Properties of the grammar on whole texts: the tokens of a text, without *)
(* whitespace and comments, given to Definitions().                        *)
(***************************************************************************)
C11_Idl == <<"i", "n", "t", "e", "r", "f", "a", "c", "e", " ", "F", "o", "o", " ", "{", " ", "r", "e", "a", "d", "o", "n", "l", "y", " ", "a", "t", "t", "r", "i", "b", "u", "t", "e", " ", "l", "o", "n", "g", " ", "x", ";", " ", "}", ";">>

\* C11: the tokens of `interface Foo { readonly attribute long x; };` parse with
\* success and only the end-of-file token left, to exactly one
\* InterfaceDefinition named Foo with no inheritance whose members are exactly
\* one AttributeMember named x, readonly and not inherit, of the IntegerType
\* long that is neither unsigned nor long long.
C11_ReadonlyAttribute ==
    (input = C11_Idl /\ dpc # "tokenize") =>
      /\ definitions.success
      /\ Len(definitions.rest) = 1 /\ definitions.rest[1].kind = "eof"
      /\ Len(definitions.value) = 1
      /\ LET def == definitions.value[1]
         IN  /\ def.node = "InterfaceDefinition"
             /\ def.identifier.text = <<"F", "o", "o">>
             /\ Same(def.inheritance, null)
             /\ Len(def.members) = 1
             /\ LET mem == def.members[1]
                IN  /\ mem.node = "AttributeMember"
                    /\ mem.identifier.text = <<"x">>
                    /\ mem.readonly = Bool(TRUE)
                    /\ mem.inherit = Bool(FALSE)
                    /\ mem.type.node = "IntegerType"
                    /\ mem.type.name.text = <<"l", "o", "n", "g">>
                    /\ mem.type.unsigned = Bool(FALSE)
                    /\ mem.type.long = Bool(FALSE)

\* The text has been tokenized and parsed.
C11_Witness ==
    /\ input = C11_Idl /\ dpc = "parsed"
    /\ Len(Filtered(yielded)) = 11
    /\ Len(definitions.value) = 1

C12_Idl == <<"i", "n", "t", "e", "r", "f", "a", "c", "e", " ", "{", " ", "}", ";">>

\* C12: the tokens of `interface { };`, where no identifier follows the keyword
\* interface, make Definitions() fail, and the errors it returns hold at least
\* one error whose expected token is of kind identifier.
C12_MissingIdentifier ==
    (input = C12_Idl /\ dpc # "tokenize") =>
      LET result == Run(rule("Definitions"), Filtered(yielded))
      IN  /\ ~result.success
          /\ ~definitions.success
          /\ definitions.errors = result.errors
          /\ \E i \in 1..Len(definitions.errors) :
               /\ ~Same(definitions.errors[i].expected, null)
               /\ definitions.errors[i].expected.kind = "identifier"

\* The driver has rejected the text with the error of the missing identifier.
C12_Witness ==
    /\ input = C12_Idl /\ dpc = "rejected"
    /\ Len(definitions.errors) = 1
    /\ definitions.errors[1].got.span.text = <<"{">>

(***************************************************************************)
(* Properties of the pipeline: a text tokenized, parsed, generated and     *)
(* emitted by a driver.                                                    *)
(***************************************************************************)
\* The driver was given the text idl: the change handler puts COMMON before it.
Given(idl) == input = IF driver = "app" THEN COMMON \o idl ELSE idl

\* text.includes(part)
Includes(text, part) ==
    \E p \in 0..(Len(text) - Len(part)) : SubSeq(text, p + 1, p + Len(part)) = part

\* The statements of the kind given that carry the name given.
Named(stmts, kind, text) ==
    SelectSeq(stmts, LAMBDA stmt : stmt.syntax = kind /\ stmt.identifier.text = text)

C13_Idl == <<"t", "y", "p", "e", "d", "e", "f", " ", "s", "h", "o", "r", "t", " ", "C", "o", "u", "n", "t", ";", " ", "i", "n", "t", "e", "r", "f", "a", "c", "e", " ", "A", " ", "{", " ", "c", "o", "n", "s", "t", " ", "C", "o", "u", "n", "t", " ", "M", "A", "X", " ", "=", " ", "1", "0", ";", " ", "}", ";">>

\* C13 as stated: the pipeline run on
\* `typedef short Count; interface A { const Count MAX = 10; };` yields the type
\* alias Count = number and an interface A whose attribute is emitted as
\* MAX: number.
C13_ConstOfAliasIsNumber ==
    (Given(C13_Idl) /\ dpc = "generated") =>
      /\ Len(Named(statements, "Typedef", <<"C", "o", "u", "n", "t">>)) = 1
      /\ Named(statements, "Typedef", <<"C", "o", "u", "n", "t">>)[1].type.span.text = <<"n", "u", "m", "b", "e", "r">>
      /\ Includes(writer.text, <<"d", "e", "c", "l", "a", "r", "e", " ", "t", "y", "p", "e", " ", "C", "o", "u", "n", "t", " ", "=", " ", "n", "u", "m", "b", "e", "r", ";">>)
      /\ Len(Named(statements, "Interface", <<"A">>)) = 1
      /\ LET members == Named(statements, "Interface", <<"A">>)[1].members
         IN  /\ Len(members) = 1
             /\ members[1].syntax = "AttributeMember"
             /\ members[1].identifier.text = <<"M", "A", "X">>
             /\ members[1].type.span.text = <<"n", "u", "m", "b", "e", "r">>
      /\ Includes(writer.text, <<"M", "A", "X", ":", " ", "n", "u", "m", "b", "e", "r", ";">>)

\* C13, amended: the pipeline run on that text yields the type alias
\* Count = number and an interface A whose one attribute is emitted under the
\* name of the alias, as MAX: Count.
C13_ConstOfAliasKeepsName ==
    (Given(C13_Idl) /\ dpc = "generated") =>
      /\ Len(Named(statements, "Typedef", <<"C", "o", "u", "n", "t">>)) = 1
      /\ Named(statements, "Typedef", <<"C", "o", "u", "n", "t">>)[1].type.span.text = <<"n", "u", "m", "b", "e", "r">>
      /\ Includes(writer.text, <<"d", "e", "c", "l", "a", "r", "e", " ", "t", "y", "p", "e", " ", "C", "o", "u", "n", "t", " ", "=", " ", "n", "u", "m", "b", "e", "r", ";">>)
      /\ Len(Named(statements, "Interface", <<"A">>)) = 1
      /\ LET members == Named(statements, "Interface", <<"A">>)[1].members
         IN  /\ Len(members) = 1
             /\ members[1].syntax = "AttributeMember"
             /\ members[1].identifier.text = <<"M", "A", "X">>
             /\ members[1].type.span.text = <<"C", "o", "u", "n", "t">>
      /\ Includes(writer.text, <<"i", "n", "t", "e", "r", "f", "a", "c", "e", " ", "A", " ", "{">>)
      /\ Includes(writer.text, <<"M", "A", "X", ":", " ", "C", "o", "u", "n", "t", ";">>)
      /\ ~Includes(writer.text, <<"M", "A", "X", ":", " ", "n", "u", "m", "b", "e", "r">>)

\* The text has gone through the whole pipeline of cmd.
C13_Witness ==
    /\ Given(C13_Idl) /\ driver = "cmd" /\ dpc = "generated"
    /\ definitions.success
    /\ Len(statements) = 2
    /\ Len(writer.text) > 0

(***************************************************************************)
(* Properties of the back end.                                             *)
(***************************************************************************)
\* The members written for a statement, in the order they were written.
Body(stmt) ==
    CASE stmt.syntax = "Interface" -> stmt.members
      [] stmt.syntax = "Declaration" /\ stmt.type.syntax = "ConstructedType" ->
           stmt.type.statements
      [] OTHER -> <<>>

\* The order of the letters in a comparison of texts.
LetterOrder == <<"a", "A", "b", "B", "c", "C", "d", "D", "e", "E", "f", "F", "g", "G", "h", "H", "i", "I", "j", "J", "k", "K", "l", "L", "m", "M", "n", "N", "o", "O", "p", "P", "q", "Q", "r", "R", "s", "S", "t", "T", "u", "U", "v", "V", "w", "W", "x", "X", "y", "Y", "z", "Z">>

\* Whether text a comes before text b, or is text b.
RECURSIVE NotAfter(_, _)
NotAfter(a, b) ==
    IF Len(a) = 0 THEN TRUE
    ELSE IF Len(b) = 0 THEN FALSE
    ELSE IF a[1] = b[1] THEN NotAfter(Tail(a), Tail(b))
    ELSE (CHOOSE i \in 1..Len(LetterOrder) : LetterOrder[i] = a[1])
           < (CHOOSE i \in 1..Len(LetterOrder) : LetterOrder[i] = b[1])

\* Whether member a may be written before member b: a method before an
\* attribute, and within one class the smaller identifier first.
InOrder(a, b) ==
    LET class(mem) == IF mem.syntax = "MethodMember" THEN 0 ELSE 1
        text(mem) == IF Truthy(mem.identifier) THEN mem.identifier.text ELSE <<>>
    IN  \/ class(a) < class(b)
        \/ class(a) = class(b) /\ NotAfter(text(a), text(b))

\* C14: the members of every Interface body and of every constructed-object
\* body are written with all methods before all attributes and, within each
\* class, in the order of their identifiers.
C14_MembersSorted ==
    dpc = "generated" =>
      \A s \in 1..Len(statements) :
        \A i, j \in 1..Len(Body(statements[s])) :
          i < j => InOrder(Body(statements[s])[i], Body(statements[s])[j])

\* C15: every Enum definition lowers to one Enum statement with its identifier
\* and its values in source order, and the text emitted for it is a type alias
\* of the enum's name over string followed by a comment that lists the values
\* joined by " | ".
C15_EnumAliasAndComment ==
    (dpc = "generated" /\ definitions.success) =>
      \A d \in 1..Len(definitions.value) :
        LET def == definitions.value[d]
            lowered == Named(statements, "Enum", def.identifier.text)
            values == join([i \in 1..Len(def.values) |-> def.values[i].text], <<" ", "|", " ">>)
        IN  def.node = "EnumDefinition" =>
              /\ Len(lowered) = 1
              /\ lowered[1].options = def.values
              /\ Includes(writer.text,
                          <<"d", "e", "c", "l", "a", "r", "e", " ", "t", "y", "p", "e", " ">> \o def.identifier.text \o <<" ", "=", " ", "s", "t", "r", "i", "n", "g", ";">>)
              /\ Includes(writer.text,
                          <<"/", "/", " ", "d", "e", "c", "l", "a", "r", "e", " ", "t", "y", "p", "e", " ">> \o def.identifier.text \o <<" ", "=", " ">> \o values)

\* The statements that carry the name given.
Called(stmts, text) == SelectSeq(stmts, LAMBDA stmt : stmt.identifier.text = text)

\* C16: every Dictionary definition lowers to exactly one Interface statement
\* with one Attribute member per dictionary member, in source order; each of
\* them is optional, required in the source or not, and is emitted with a ?
\* after its name.
C16_DictionaryMembersOptional ==
    dpc \in {"lowered", "generated"} =>
      \A d \in 1..Len(handed[1]) :
        LET def == handed[1][d]
            lowered == Called(statements, def.identifier.text)
        IN  def.node = "DictionaryDefinition" =>
              /\ Len(lowered) = 1
              /\ lowered[1].syntax = "Interface"
              /\ Len(lowered[1].members) = Len(def.members)
              /\ \A i \in 1..Len(def.members) :
                   /\ lowered[1].members[i].syntax = "AttributeMember"
                   /\ lowered[1].members[i].optional = Bool(TRUE)
                   /\ dpc = "lowered" =>
                        lowered[1].members[i].identifier = def.members[i].identifier
                   /\ dpc = "generated" =>
                        Includes(writer.text, def.members[i].identifier.text \o <<"?", ":", " ">>)

\* A dictionary with a required member and one that is not has been emitted.
C16_Witness ==
    /\ dpc = "generated"
    /\ \E d \in 1..Len(handed[1]) :
         /\ handed[1][d].node = "DictionaryDefinition"
         /\ \E i, j \in 1..Len(handed[1][d].members) :
              /\ handed[1][d].members[i].required = Bool(TRUE)
              /\ handed[1][d].members[j].required = Bool(FALSE)

\* The mapping table of types: the number types, the string types, the type
\* constructors, and every other named type as its own text; nullable only
\* for a type whose root is Nullable.
RECURSIVE C17_Reference(_)
C17_Reference(type) ==
    LET inner == C17_Reference(type.type)
        members == [i \in 1..Len(type.types) |-> C17_Reference(type.types[i]).text]
    IN  IF type.node = "NullableType" THEN [text |-> inner.text, nullable |-> TRUE]
        ELSE [nullable |-> FALSE,
              text |->
                IF type.node \in {"IntegerType", "FloatType"} THEN <<"n", "u", "m", "b", "e", "r">>
                ELSE IF type.node = "PromiseType" THEN <<"P", "r", "o", "m", "i", "s", "e", "<">> \o inner.text \o <<">">>
                ELSE IF type.node \in {"SequenceType", "FrozenArrayType"}
                       THEN inner.text \o <<"[", "]">>
                ELSE IF type.node = "UnionType"
                       THEN <<"(">> \o join(members, <<" ", "|", " ">>) \o <<")">>
                ELSE IF type.span.text \in {<<"b", "y", "t", "e">>, <<"o", "c", "t", "e", "t">>} THEN <<"n", "u", "m", "b", "e", "r">>
                ELSE IF type.span.text \in {<<"B", "y", "t", "e", "S", "t", "r", "i", "n", "g">>, <<"D", "O", "M", "S", "t", "r", "i", "n", "g">>, <<"U", "S", "V", "S", "t", "r", "i", "n", "g">>}
                       THEN <<"s", "t", "r", "i", "n", "g">>
                ELSE type.span.text]

\* C17: the type of every typedef handed to the generator is lowered to one
\* SimpleType whose text and optional flag are those of the mapping table:
\* number for byte, octet, integer and float types, string for the three string
\* types, Promise<..> and ..[] and (.. | ..) around the mapped inner texts, any
\* other named type as written, and optional only for a Nullable root.
C17_TypeMappingIsReference ==
    dpc \in {"lowered", "generated"} =>
      \A d \in 1..Len(handed[1]) :
        LET def == handed[1][d]
            lowered == Named(statements, "Typedef", def.identifier.text)
        IN  def.node = "Typedef" =>
              /\ Len(lowered) >= 1
              /\ \A i \in 1..Len(lowered) :
                   /\ lowered[i].type.syntax = "SimpleType"
                   /\ DOMAIN lowered[i].type = {"syntax", "optional", "span"}
                   /\ lowered[i].type.span.text = C17_Reference(def.type).text
                   /\ lowered[i].type.optional = Bool(C17_Reference(def.type).nullable)

\* A typedef of a sequence of a nullable type has been lowered: a type whose
\* root is not Nullable around one that is.
C17_Witness ==
    /\ dpc = "lowered"
    /\ \E d \in 1..Len(handed[1]) :
         /\ handed[1][d].node = "Typedef"
         /\ handed[1][d].type.node = "SequenceType"
         /\ handed[1][d].type.type.node = "NullableType"
         /\ handed[1][d].type.type.type.node = "SimpleType"
         /\ handed[1][d].type.type.type.span.text = <<"D", "O", "M", "S", "t", "r", "i", "n", "g">>

\* The static members of an interface definition.
StaticMembers(def) == SelectSeq(def.members, LAMBDA mem : mem.node = "StaticMember")

\* C18: generation of an Interface definition yields one Interface statement
\* and, exactly when the interface has a constructor attribute or a static
\* member, one Declaration after it, whose constructed type holds the
\* prototype attribute and a lowered member for each static member.
C18_DeclarationIffConstructorOrStatic ==
    dpc = "lowered" =>
      \A d \in 1..Len(handed[1]) :
        LET def == handed[1][d]
            out == Generator(def)
        IN  def.node = "InterfaceDefinition" =>
              /\ Len(out) \in {1, 2}
              /\ out[1].syntax = "Interface"
              /\ Len(out) = 2 <=>
                   \/ Len(getConstructors(def)) >= 1
                   \/ Len(StaticMembers(def)) >= 1
              /\ Len(out) = 2 =>
                   /\ out[2].syntax = "Declaration"
                   /\ out[2].type.syntax = "ConstructedType"
                   /\ \E i \in 1..Len(out[2].type.statements) :
                        /\ out[2].type.statements[i].syntax = "AttributeMember"
                        /\ out[2].type.statements[i].identifier.text = <<"p", "r", "o", "t", "o", "t", "y", "p", "e">>
                   /\ \A s \in 1..Len(StaticMembers(def)) :
                        \E i \in 1..Len(out[2].type.statements) :
                          out[2].type.statements[i].identifier = StaticMembers(def)[s].identifier

\* Whether the signature given is the one claimed of the constructor attribute
\* given: the arguments of an argument list, none of a bare marker.
C19_SignatureOf(ctor, attr) ==
    IF attr.node = "ExtendedAttribute" THEN ctor.args = <<>>
    ELSE IF \/ attr.node = "ExtendedAttributeNamedArgList"
            \/ attr.node = "ExtendedAttributeArgList" /\ IsArray(attr.args)
      THEN /\ Len(ctor.args) = Len(attr.args)
           /\ \A i \in 1..Len(attr.args) :
                /\ ctor.args[i].identifier = attr.args[i].identifier
                /\ ctor.args[i].type = TypeMapping(attr.args[i].type)
                /\ ctor.args[i].optional = attr.args[i].optional
      ELSE TRUE

\* C19: for an interface with k >= 1 attributes named Constructor or
\* NamedConstructor, the Declaration generated holds exactly k methods named
\* new, one per constructor attribute, each returning the type of the
\* interface; an attribute with an argument list gives its arguments (count,
\* order, mapped types, optional flags), a bare marker gives none.
C19_OneNewPerConstructor ==
    dpc = "lowered" =>
      \A d \in 1..Len(handed[1]) :
        LET def == handed[1][d]
            out == Generator(def)
            attrs == getConstructors(def)
            k == Len(attrs)
            news == SelectSeq(out[2].type.statements,
                              LAMBDA mem : /\ mem.syntax = "MethodMember"
                                           /\ mem.identifier.text = <<"n", "e", "w">>)
        IN  def.node = "InterfaceDefinition" /\ k >= 1 =>
              /\ Len(out) = 2
              /\ out[2].syntax = "Declaration"
              /\ Len(news) = k
              /\ \A i \in 1..k :
                   /\ news[i].rtype.syntax = "SimpleType"
                   /\ news[i].rtype.span.text = def.identifier.text
              /\ \E f \in [1..k -> 1..k] :
                   /\ \A i, j \in 1..k : f[i] = f[j] => i = j
                   /\ \A i \in 1..k : C19_SignatureOf(news[f[i]], attrs[i])

\* The extended attributes of the last definition parsed.
LastAttributes == definitions.value[Len(definitions.value)].attributes

\* The text given has been parsed completely to one definition with the one
\* extended attribute X of the node variant given.
C20_ParsedAs(idl, variant) ==
    (Given(idl) /\ dpc # "tokenize") =>
      /\ definitions.success
      /\ Len(LastAttributes) = 1
      /\ LastAttributes[1].node = variant
      /\ LastAttributes[1].identifier.text = <<"X">>

\* C20: each of the five forms of an extended attribute is parsed completely
\* and to the node variant of its form: X to ExtendedAttribute, X(args) to
\* ExtendedAttributeArgList, X=Y to ExtendedAttributeIdent with ident Y,
\* X=(A,B) to ExtendedAttributeIdentList, X=Y(args) to
\* ExtendedAttributeNamedArgList.
C20_FormsParseToOwnVariant ==
    /\ C20_ParsedAs(<<"[", "X", "]", " ", "i", "n", "t", "e", "r", "f", "a", "c", "e", " ", "A", " ", "{", " ", "}", ";">>, "ExtendedAttribute")
    /\ C20_ParsedAs(<<"[", "X", "(", "l", "o", "n", "g", " ", "a", ")", "]", " ", "i", "n", "t", "e", "r", "f", "a", "c", "e", " ", "A", " ", "{", " ", "}", ";">>, "ExtendedAttributeArgList")
    /\ C20_ParsedAs(<<"[", "X", "=", "(", "A", ",", "B", ")", "]", " ", "i", "n", "t", "e", "r", "f", "a", "c", "e", " ", "A", " ", "{", " ", "}", ";">>, "ExtendedAttributeIdentList")
    /\ C20_ParsedAs(<<"[", "X", "=", "Y", "(", "l", "o", "n", "g", " ", "a", ")", "]", " ", "i", "n", "t", "e", "r", "f", "a", "c", "e", " ", "A", " ", "{", " ", "}", ";">>, "ExtendedAttributeNamedArgList")
    /\ C20_ParsedAs(<<"[", "X", "=", "Y", "]", " ", "i", "n", "t", "e", "r", "f", "a", "c", "e", " ", "A", " ", "{", " ", "}", ";">>, "ExtendedAttributeIdent")
    /\ (Given(<<"[", "X", "=", "Y", "]", " ", "i", "n", "t", "e", "r", "f", "a", "c", "e", " ", "A", " ", "{", " ", "}", ";">>) /\ dpc # "tokenize") =>
         LastAttributes[1].ident.text = <<"Y">>

\* The error of a fail() stub.
StubError == [expected |-> null, got |-> null]

\* C21: whenever the parse of a driver is rejected, by a failure of
\* Definitions() or by tokens left before the end-of-file token, the errors
\* handed to the caller are not empty; and `partial interface A { };`, whose
\* definition starts with the stub Partial(), is rejected with the error of
\* the stub among them.
C21_RejectedWithErrors ==
    (dpc \notin {"tokenize"} /\ ~definitions.success) =>
      /\ Len(definitions.errors) > 0
      /\ Given(<<"p", "a", "r", "t", "i", "a", "l", " ", "i", "n", "t", "e", "r", "f", "a", "c", "e", " ", "A", " ", "{", " ", "}", ";">>) =>
           \E i \in 1..Len(definitions.errors) : definitions.errors[i] = StubError

\* C22: fail() returns, on every token list, a failure that consumed nothing,
\* whose rest is the list it was given, with exactly one error, and the error
\* carries the identity of the rule left unimplemented: some field of it is
\* not null.
C22_FailNamesRule ==
    (parser.op = "fail" /\ frame.done) =>
      /\ ~frame.result.success
      /\ ~frame.result.consumed
      /\ frame.result.rest = frame.tokens
      /\ Len(frame.result.errors) = 1
      /\ \E field \in DOMAIN frame.result.errors[1] :
           ~Same(frame.result.errors[1][field], null)

(***************************************************************************)
(* Properties of the grammar as a whole: which parsers may succeed on no   *)
(* token, and which grammar functions a parser calls on the very tokens it *)
(* was given.                                                              *)
(***************************************************************************)
\* The names of the grammar functions.
Rules ==
    DOMAIN DefinitionRules \cup DOMAIN MemberRules \cup DOMAIN ExtendedAttributeRules
      \cup DOMAIN TypeRules \cup DOMAIN ExtendedAttributeKindRules

\* Whether p may succeed with consumed = false; seen holds the grammar
\* functions entered on the way.
RECURSIVE MaySucceedOnNothing(_, _)
MaySucceedOnNothing(p, seen) ==
    CASE p.op \in {"token", "fail"} -> FALSE
      [] p.op \in {"constant", "many", "optional", "exists"} -> TRUE
      [] p.op = "create" ->
           \A i \in 1..Len(p.steps) : MaySucceedOnNothing(p.steps[i], seen)
      [] p.op = "combine" ->
           MaySucceedOnNothing(p.p1, seen) /\ MaySucceedOnNothing(p.p2, seen)
      [] p.op \in {"choose", "choose_backtracking"} ->
           \E i \in 1..Len(p.parsers) : MaySucceedOnNothing(p.parsers[i], seen)
      [] p.op \in {"map", "name"} -> MaySucceedOnNothing(p.p, seen)
      [] p.op = "rule" ->
           p.name \notin seen /\ MaySucceedOnNothing(Rule(p.name), seen \cup {p.name})

\* The grammar functions p calls on the tokens it was given, before any token
\* is consumed.
RECURSIVE CalledAtOnce(_)
CalledAtOnce(p) ==
    CASE p.op \in {"token", "fail", "constant"} -> {}
      [] p.op = "rule" -> {p.name}
      [] p.op \in {"many", "optional", "map", "exists", "name"} -> CalledAtOnce(p.p)
      [] p.op = "create" ->
           UNION {CalledAtOnce(p.steps[i]) :
                    i \in {k \in 1..Len(p.steps) :
                             \A j \in 1..(k - 1) : MaySucceedOnNothing(p.steps[j], {})}}
      [] p.op = "combine" ->
           CalledAtOnce(p.p1)
             \cup (IF MaySucceedOnNothing(p.p1, {}) THEN CalledAtOnce(p.p2) ELSE {})
      [] p.op \in {"choose", "choose_backtracking"} ->
           UNION {CalledAtOnce(p.parsers[i]) : i \in 1..Len(p.parsers)}

\* The grammar functions entered, one in another, from those of S with no
\* token consumed.
RECURSIVE EnteredAtOnce(_)
EnteredAtOnce(S) ==
    LET more == S \cup UNION {CalledAtOnce(Rule(r)) : r \in S}
    IN  IF more = S THEN S ELSE EnteredAtOnce(more)

\* The parsers a parser is built of, itself among them.
RECURSIVE Parts(_)
Parts(p) ==
    {p} \cup
      CASE p.op \in {"many", "optional", "map", "exists", "name"} -> Parts(p.p)
        [] p.op = "create" -> UNION {Parts(p.steps[i]) : i \in 1..Len(p.steps)}
        [] p.op = "combine" -> Parts(p.p1) \cup Parts(p.p2)
        [] p.op \in {"choose", "choose_backtracking"} ->
             UNION {Parts(p.parsers[i]) : i \in 1..Len(p.parsers)}
        [] OTHER -> {}

\* No grammar function is entered again before a token is consumed.
NoRuleEntersItselfAtOnce == \A r \in Rules : r \notin EnteredAtOnce(CalledAtOnce(Rule(r)))

\* No many() of the grammar repeats a parser that may succeed on no token.
EveryManyConsumes ==
    \A r \in Rules : \A p \in Parts(Rule(r)) :
      p.op = "many" => ~MaySucceedOnNothing(p.p, {})

\* C23: Definitions() returns on every token list after finitely many calls:
\* no grammar function is entered again, through whatever functions, before a
\* token is consumed, and no many() of the grammar repeats a parser that may
\* succeed on no token; so every call a parse makes is on a shorter suffix or
\* on one of finitely many functions of the same suffix, and the parse of a
\* driver has returned a result with the calls of each suffix returned once.
C23_ParseReturns ==
    /\ NoRuleEntersItselfAtOnce
    /\ EveryManyConsumes
    /\ Len(returned) <= Len(Filtered(yielded))
    /\ dpc \notin {"idle", "tokenize"} =>
         /\ definitions.success \in BOOLEAN
         /\ Len(returned) = Len(Filtered(yielded))
         /\ Len(definitions.rest) <= Len(Filtered(yielded))

\* The parse of the interface with every kind of member has returned, through
\* InterfaceMembers, Arguments and the types, on forty tokens and more.
C23_Witness ==
    /\ dpc = "parsed"
    /\ definitions.success
    /\ Len(Filtered(yielded)) > 40
    /\ definitions.value[1].node = "InterfaceDefinition"
    /\ \E m \in 1..Len(definitions.value[1].members) :
         definitions.value[1].members[m].node = "MaplikeMember"

\* The members of an interface definition that are constants, attributes or
\* operations, in source order.
LoweredMembers(def) ==
    SelectSeq(def.members,
              LAMBDA mem : mem.node \in {"ConstMember", "AttributeMember", "OperationMember"})

\* C24: the members of the Interface statement generated of an interface
\* definition are, in source order, one AttributeMember for each constant and
\* attribute (not optional, of the mapped type, with no mark of readonly or
\* inherit) and one MethodMember for each operation (its arguments in order
\* with mapped types, its return type mapped, or none where the operation
\* returns void, which is written void); static, iterable, maplike and setlike
\* members give no member.
C24_InterfaceMembersLowered ==
    dpc \in {"lowered", "generated"} =>
      \A d \in 1..Len(handed[1]) :
        LET def == handed[1][d]
            stmt == Generator(def)[1]
            kept == LoweredMembers(def)
        IN  def.node = "InterfaceDefinition" =>
              /\ stmt.syntax = "Interface"
              /\ dpc = "lowered" => \E s \in 1..Len(statements) : statements[s] = stmt
              /\ Len(stmt.members) = Len(kept)
              /\ \A i \in 1..Len(kept) :
                   LET mem == kept[i]
                       low == stmt.members[i]
                   IN  /\ low.identifier = mem.identifier
                       /\ mem.node \in {"ConstMember", "AttributeMember"} =>
                            /\ low.syntax = "AttributeMember"
                            /\ low.optional = Bool(FALSE)
                            /\ low.type = TypeMapping(mem.type)
                            /\ DOMAIN low \cap {"readonly", "inherit"} = {}
                       /\ mem.node = "OperationMember" =>
                            /\ low.syntax = "MethodMember"
                            /\ Len(low.args) = Len(mem.args)
                            /\ \A a \in 1..Len(mem.args) :
                                 /\ low.args[a].identifier = mem.args[a].identifier
                                 /\ low.args[a].type = TypeMapping(mem.args[a].type)
                            /\ low.rtype = IF Same(mem.rtype, null) THEN null
                                           ELSE TypeMapping(mem.rtype)
                            /\ (dpc = "generated" /\ Same(mem.rtype, null)
                                  /\ ~Same(mem.identifier, null)) =>
                                 Includes(writer.text, mem.identifier.text \o <<"(">>)
                                   /\ Includes(writer.text, <<")", ":", " ", "v", "o", "i", "d", ";", " ">>)

\* The interface with a constant, a readonly attribute, two operations and a
\* static, an iterable, a maplike and a setlike member has been lowered to a
\* statement of four members.
C24_Witness ==
    /\ dpc = "lowered"
    /\ \E d \in 1..Len(handed[1]) :
         /\ handed[1][d].node = "InterfaceDefinition"
         /\ Len(handed[1][d].members) = 8
         /\ Len(LoweredMembers(handed[1][d])) = 4
         /\ \E s \in 1..Len(statements) :
              statements[s].syntax = "Interface" /\ Len(statements[s].members) = 4

\* The combinators that run the parsers they are given.
Combinators ==
    {"many", "optional", "create", "combine", "choose", "choose_backtracking", "map",
     "exists", "name"}

\* C25: a failure returned by a combinator has consumed = true exactly when
\* one of the runs the combinator made of the parsers given to it consumed.
C25_ConsumedIffARunConsumed ==
    (parser.op \in Combinators /\ frame.done /\ ~frame.result.success) =>
      (frame.result.consumed <=> \E k \in 1..Len(runs) : runs[k].res.consumed)

\* The one error name(p, label) makes of the errors of a result.
Synthetic(label, errors) ==
    [expected |-> [kind |-> "eof", span |-> [text |-> label, position |-> -1]],
     got |-> errors[1].got]

\* C26: name(p, label) changes the result of p only when p fails: then the
\* errors become the one synthetic error that expects the label and got what
\* the first error of p got; a success of p is returned as it is, errors and
\* all.
C26_NameChangesFailuresOnly ==
    (parser.op = "name" /\ frame.done) =>
      LET result == runs[1].res
      IN  IF result.success
            THEN frame.result = result
            ELSE /\ Len(result.errors) > 0
                 /\ frame.result =
                      [result EXCEPT !.errors = <<Synthetic(parser.label, result.errors)>>]

\* The text a Writer holds after its first n calls if the indentation of a
\* line is written when the first text of the line is appended, and then
\* only: fresh tells that no text has been appended to the line yet.
RECURSIVE Indented(_)
Indented(n) ==
    IF n = 0 THEN [text |-> <<>>, fresh |-> TRUE]
    ELSE LET before == Indented(n - 1)
             call == calls[n]
             texts == IF call.op = "appendln" THEN call.text \o <<Writer.linebreak>>
                                              ELSE call.text
         IN  IF call.op \in {"append", "appendln"} /\ Len(texts) > 0
               THEN [text |-> before.text
                                \o (IF before.fresh
                                      THEN repeat(Writer.tab, call.indentation) ELSE <<>>)
                                \o join(texts, Writer.space),
                     fresh |-> call.op = "appendln"]
               ELSE before

\* C27: after any calls of append, appendln, indent and unindent, every line
\* of the text begins with the tabs of the depth at which its first text was
\* appended, written once and only with a text; indent and unindent write
\* nothing.
C27_IndentationWithFirstText ==
    driver = "none" /\ dpc = "idle" /\ parser = fail /\ frame = undefined =>
      writer.text = Indented(Len(calls)).text

\* Whether rest is what is left of tokens after some of its first tokens.
IsSuffix(rest, tokens) ==
    /\ Len(rest) <= Len(tokens)
    /\ rest = SubSeq(tokens, Len(tokens) - Len(rest) + 1, Len(tokens))

\* What C28 says of a result of a parser on tokens.
RestOf(result, tokens) ==
    /\ ~result.success => result.rest = tokens
    /\ result.success => IsSuffix(result.rest, tokens)
    /\ (result.success /\ ~result.consumed) => result.rest = tokens

\* C28: every result of a leaf parser or a combinator, and of every parser a
\* combinator ran, has the tokens it was given for rest when it failed, and a
\* suffix of them when it succeeded, all of them when it consumed nothing;
\* and the parsers a combinator runs are given suffixes of its own tokens.
C28_RestIsInputOrSuffix ==
    /\ "tokens" \in DOMAIN frame => \A k \in 1..Len(runs) :
         /\ IsSuffix(runs[k].at, frame.tokens)
         /\ RestOf(runs[k].res, runs[k].at)
    /\ ("tokens" \in DOMAIN frame /\ frame.done) => RestOf(frame.result, frame.tokens)

\* A combine whose first parser read a token and whose second failed has
\* returned: the failure has both tokens for rest.
C28_Witness ==
    /\ parser.op = "combine" /\ frame.done
    /\ Len(runs) = 2 /\ runs[1].res.success /\ runs[1].res.consumed
    /\ ~runs[2].res.success
    /\ ~frame.result.success /\ Len(frame.result.rest) = 2

(***************************************************************************)
(* C29: many returns provided every successful run shortens the rest.      *)
(***************************************************************************)
\* The last n of the tokens.
Last(tokens, n) == SubSeq(tokens, Len(tokens) - n + 1, Len(tokens))

\* Whether every successful run of p on what is left of tokens leaves less.
Shrinks(p, tokens) ==
    \A n \in 0..Len(tokens) :
        LET result == Run(p, Last(tokens, n))
        IN  result.success => Len(result.rest) < n

\* What the runs of a many are: each on the rest of the one before it, all
\* of them successes but the one many returned on.
ManyRuns ==
    /\ \A k \in 1..Len(runs) :
         /\ runs[k].at = IF k = 1 THEN frame.tokens ELSE runs[k - 1].res.rest
         /\ k < Len(runs) => runs[k].res.success
    /\ frame.done <=> (Len(runs) > 0 /\ ~runs[Len(runs)].res.success)
    /\ Shrinks(parser.p, frame.tokens) => Len(runs) <= Len(frame.tokens) + 1

\* C29: a many whose parser leaves less on every success returns, after one
\* run more than there are tokens at most; and a many has returned exactly
\* when its last run failed, every run before it having succeeded.
C29_ManyReturns ==
    /\ [](parser.op = "many" => ManyRuns)
    /\ (parser.op = "many" /\ Shrinks(parser.p, frame.tokens)) ~> frame.done

\* A many of a token parser has returned on its fourth run, at the end of
\* three tokens it read.
C29_Witness ==
    /\ parser.op = "many" /\ Shrinks(parser.p, frame.tokens)
    /\ frame.done /\ frame.result.success
    /\ Len(frame.tokens) = 3 /\ Len(runs) = 4 /\ runs[4].at = <<>>

(***************************************************************************)
(* C30: generate and emit complete on every accepted parse.                *)
(***************************************************************************)
\* The members of a statement of the target model.
MembersOf(stmt) ==
    CASE stmt.syntax = "Interface" -> stmt.members
      [] stmt.syntax = "Declaration" /\ stmt.type.syntax = "ConstructedType" ->
           stmt.type.statements
      [] OTHER -> <<>>

\* Whether the visit of every member of the statements writes something.
EveryMemberWritten(namespace, stmts) ==
    \A i \in 1..Len(stmts) : \A j \in 1..Len(MembersOf(stmts[i])) :
        Emitter(namespace, Writer, MembersOf(stmts[i])[j]) # Writer

\* C30: after an accepted parse neither generate nor emit throws, and the
\* emitter has written every member of the statements generated.
C30_BackEndTotal ==
    /\ dpc = "thrown" => ~definitions.success
    /\ (dpc = "generated" /\ definitions.success) =>
         EveryMemberWritten(Namespace, statements)

====
